---- MODULE Spec2Model ----
(***************************************************************************)
(* State-machine model of the VigiSaude dashboard: the map layer manager   *)
(* (components/map.js), the national-data loader (main.js) and the         *)
(* memoized data access layer (services/api.js).                           *)
(***************************************************************************)
EXTENDS Integers, Sequences, FiniteSets, TLC

\* ------------------------------------------------------------------ bounds
NumDiseases == 2
NumUFs == 1
ZoomSpan == 1
MaxRuns == 2
MaxCalls == 3
MaxSeriesLen == 2
NumWeeks == 2
NumCapitals == 2
MaxSummaries == 2
MaxLocations == 1
MaxGeocodes == 2
MaxFetches == 2

\* --------------------------------------------------------------- constants
MUNICIPIO_ZOOM_THRESHOLD == 6

Null == "null"

DiseaseList == <<"dengue", "chikungunya", "zika">>

Min2(a, b) == IF a < b THEN a ELSE b

Diseases == { DiseaseList[i] : i \in 1..Min2(NumDiseases, Len(DiseaseList)) }

AllDiseases == { DiseaseList[i] : i \in 1..Len(DiseaseList) }

Layers == {"disease", "heatmap", "coletaEsgoto", "tratamentoEsgoto", "esgotoRelevo"}

UF_IDS == <<11, 12, 13, 14, 15, 16, 17, 21, 22, 23, 24, 25, 26, 27, 28, 29,
            31, 32, 33, 35, 41, 42, 43, 50, 51, 52, 53>>

UFs == { UF_IDS[i] : i \in 1..Min2(NumUFs, Len(UF_IDS)) }

\* MAJOR_CITIES_BY_UF has an entry (a non-empty geocode list) for every id of UF_IDS.
MAJOR_CITIES_BY_UF == { UF_IDS[i] : i \in 1..Len(UF_IDS) }

ZoomLevels == (MUNICIPIO_ZOOM_THRESHOLD - ZoomSpan)..(MUNICIPIO_ZOOM_THRESHOLD + ZoomSpan)

INITIAL_ZOOM == 4

VARIABLES
    mp,          \* module state of components/map.js and of its Leaflet map
    muniLoads,   \* suspended loadMunicipioLayer calls, per state id
    pendingGeo,  \* suspended loadGeoJSON calls awaiting fetchBrazilGeoJSON
    ui,          \* main.js: state object, active layer button, running loads
    cache,       \* services/api.js: the memoization Map (key -> value)
    cs,          \* services/api.js: the cachedFetch calls awaiting their fetcher
    ov,          \* services/api.js: the running fetchNationalOverview fetcher
    cd,          \* components/cards.js: the aggregates shown by the cards and the summary
    ch,          \* components/charts.js: the tracker datasets and the charts built from them
    bk,          \* services/api.js: the running fetchBulkMunicipioAlerts call
    nl,          \* main.js: state.nationalData and the loadNationalData calls fetching
    sc,          \* components/map.js: a sanitation percentage, its fill colour and the legend
    tk,          \* main.js: the tracker locations, their series and the fetches awaited
    hist         \* history of the run, read by the properties only

vars == <<mp, muniLoads, pendingGeo, ui, cache, cs, ov, cd, ch, bk, nl, sc, tk, hist>>

\* ------------------------------------------------------------- api.js cache
BrazilGeoKey == "brazil-geo"

StateGeoKey(ufId) == "state-geo-" \o ToString(ufId)

CacheHas(c, key) == key \in DOMAIN c

CacheSet(c, key, value) == [k \in (DOMAIN c) \cup {key} |-> IF k = key THEN value ELSE c[k]]

EmptyCache == [k \in {} |-> Null]

\* Variant of cacheKey that leaves the last argument out; C12 must not hold of it.
cacheKey_DropLast(args) ==
    LET J[i \in 1..Len(args)] ==
            IF i = 1 THEN args[1] ELSE J[i - 1] \o "|" \o args[i]
    IN  IF Len(args) <= 1 THEN "" ELSE J[Len(args) - 1]

\* cacheKey(...args): args.join('|'), the arguments in their string form.
cacheKey(args) ==
    LET J[i \in 1..Len(args)] ==
            IF i = 1 THEN args[1] ELSE J[i - 1] \o "|" \o args[i]
    IN  IF args = <<>> THEN "" ELSE J[Len(args)]

\* new Date().getFullYear()
CurrentYear == 2026

\* A series point is identified by its SE (year * 100 + week).
SampleSE == { CurrentYear * 100 + w : w \in 1..NumWeeks }

\* The upstream answers: series of at most MaxSeriesLen points, in any order.
RawResponses == UNION { [1..n -> SampleSE] : n \in 0..MaxSeriesLen }

\* The same for a request about the year `year`.
SampleYearSE(year) == { year * 100 + w : w \in 1..NumWeeks }

RawResponsesOf(year) == UNION { [1..n -> SampleYearSE(year)] : n \in 0..MaxSeriesLen }

\* data.sort((a, b) => a.SE - b.SE): a stable ascending sort, by insertion.
InsertBySE(sorted, p) ==
    LET k == Cardinality({ i \in 1..Len(sorted) : sorted[i] <= p })
    IN  SubSeq(sorted, 1, k) \o <<p>> \o SubSeq(sorted, k + 1, Len(sorted))

\* Variant of SortBySE that keeps the order of the response; C14 must not hold of it.
SortBySE_AsReceived(data) == data

SortBySE(data) ==
    LET S[i \in 0..Len(data)] == IF i = 0 THEN <<>> ELSE InsertBySE(S[i - 1], data[i])
    IN  S[Len(data)]

\* The key of fetchDiseaseData(geocode, disease, ewStart, ewEnd, eyStart, eyEnd).
DiseaseDataKey(args) == cacheKey(<<"disease">> \o args)

\* The argument tuples the calls are drawn from: one tuple and the tuples that differ
\* from it in exactly one of the six components.
BaseArgs == <<"3550308", "dengue", "1", "52", ToString(CurrentYear), ToString(CurrentYear)>>

OtherArg == <<"3304557", "zika", "2", "51", ToString(CurrentYear - 1), ToString(CurrentYear - 1)>>

ArgTuples ==
    {BaseArgs} \cup { [BaseArgs EXCEPT ![i] = OtherArg[i]] : i \in 1..Len(BaseArgs) }

\* A request through cachedFetch: fetchDiseaseData(args), fetchBrazilGeoJSON() or
\* fetchStateGeoJSON(ufId).
DiseaseRequest(args) == [kind |-> "disease", args |-> args, ufId |-> 0]

BrazilGeoRequest == [kind |-> "brazil-geo", args |-> <<>>, ufId |-> 0]

StateGeoRequest(ufId) == [kind |-> "state-geo", args |-> <<>>, ufId |-> ufId]

Requests ==
    { DiseaseRequest(args) : args \in ArgTuples } \cup {BrazilGeoRequest}
        \cup { StateGeoRequest(u) : u \in UFs }

\* The key each of the three functions hands to cachedFetch.
KeyOf(req) ==
    IF req.kind = "disease" THEN DiseaseDataKey(req.args)
    ELSE IF req.kind = "brazil-geo" THEN BrazilGeoKey
    ELSE StateGeoKey(req.ufId)

\* What the fetcher returns for an ok response: the sorted series, or the parsed
\* boundary document.
FetcherValue(req, raw) == IF req.kind = "disease" THEN SortBySE(raw) ELSE "geojson"

\* inflight: the fetcher invocations awaiting their response; returned: the key of the
\* entry the last call returned at once (<<>> when it returned none); resolved, failed: the requests
\* that were answered and that failed so far; rejections: the rejected calls.
InitCalls ==
    [inflight |-> <<>>, calls |-> 0, returned |-> <<>>, resolved |-> {}, failed |-> {},
     rejections |-> 0]

RemoveAt(seq, i) ==
    [j \in 1..(Len(seq) - 1) |-> IF j < i THEN seq[j] ELSE seq[j + 1]]

\* cachedFetch(key, fetcher) up to its await: a stored value is returned, otherwise
\* the fetcher is invoked.
cachedFetchCall(c, calls, key, req) ==
    IF CacheHas(c, key)
    THEN [calls EXCEPT !.calls = @ + 1, !.returned = <<key>>]
    ELSE [calls EXCEPT !.calls = @ + 1, !.returned = <<>>,
                       !.inflight = Append(@, [key |-> key, req |-> req])]

CachedCall(req) ==
    /\ cs.calls < MaxCalls
    /\ cs' = cachedFetchCall(cache, cs, KeyOf(req), req)
    /\ UNCHANGED <<tk, sc, nl, bk, ch, cd, mp, muniLoads, pendingGeo, ui, cache, ov, hist>>

\* fetchDiseaseData(args) is called.
FetchDiseaseDataCall(args) == CachedCall(DiseaseRequest(args))

\* fetchBrazilGeoJSON() is called.
FetchBrazilGeoJSONCall == CachedCall(BrazilGeoRequest)

\* fetchStateGeoJSON(ufId) is called.
FetchStateGeoJSONCall(ufId) == CachedCall(StateGeoRequest(ufId))

\* The i-th outstanding request is answered with status ok and the body raw.
FetchResponds(i, raw) ==
    /\ i \in 1..Len(cs.inflight)
    /\ cs.inflight[i].req.kind # "disease" => raw = <<>>
    /\ cache' = CacheSet(cache, cs.inflight[i].key, FetcherValue(cs.inflight[i].req, raw))
    /\ cs' = [cs EXCEPT !.inflight = RemoveAt(@, i),
                        !.resolved = @ \cup {cs.inflight[i].req}]
    /\ UNCHANGED <<tk, sc, nl, bk, ch, cd, mp, muniLoads, pendingGeo, ui, ov, hist>>

\* Variant of FetchFails that stores the failure under the key; C13 must not hold of it.
FetchFails_Memoized(i) ==
    /\ i \in 1..Len(cs.inflight)
    /\ cache' = CacheSet(cache, cs.inflight[i].key,
                         IF cs.inflight[i].req.kind = "disease" THEN <<>> ELSE "error")
    /\ cs' = [cs EXCEPT !.inflight = RemoveAt(@, i),
                        !.failed = @ \cup {cs.inflight[i].req},
                        !.rejections = @ + 1]
    /\ UNCHANGED <<tk, sc, nl, bk, ch, cd, mp, muniLoads, pendingGeo, ui, ov, hist>>

\* The i-th outstanding request fails (non-ok status or transport error): the fetcher
\* throws and cachedFetch rejects without reaching cache.set.
FetchFails(i) ==
    /\ i \in 1..Len(cs.inflight)
    /\ cs' = [cs EXCEPT !.inflight = RemoveAt(@, i),
                        !.failed = @ \cup {cs.inflight[i].req},
                        !.rejections = @ + 1]
    /\ UNCHANGED <<tk, sc, nl, bk, ch, cd, mp, muniLoads, pendingGeo, ui, cache, ov, hist>>

\* ------------------------------------------------------------ map.js state
\* geoLayer = null: no state choropleth has been built.
NoLayer == [data |-> Null, style |-> Null]

InitMapState ==
    [ currentMapLayer |-> "disease",
      currentDisease |-> "dengue",
      lastCapitalData |-> Null,
      allDiseaseDataForHeatmap |-> {},
      geoLayer |-> NoLayer,
      geoOnMap |-> 0,
      heatmapSvgOverlay |-> FALSE,
      heatOnMap |-> 0,
      esgotoRelevoLayer |-> FALSE,
      reliefOnMap |-> 0,
      loadedMunicipioLayers |-> [u \in UFs |-> Null],
      muniOnMap |-> [u \in UFs |-> 0],
      loadingStates |-> {},
      municipioAlertCache |-> [u \in UFs |-> Null],
      legend |-> "disease",
      zoom |-> INITIAL_ZOOM,
      viewport |-> {},
      mapError |-> FALSE,
      loadingHidden |-> FALSE ]

\* geoLayer.setStyle(...) / resetStyle on the state choropleth, when there is one.
SetGeoStyle(s, style) ==
    IF s.geoLayer = NoLayer THEN s
    ELSE [s EXCEPT !.geoLayer = [@ EXCEPT !.style = style]]

\* The style function of loadGeoJSON, as evaluated when the layer is (re)styled.
GeoStyleFn(s) ==
    IF s.zoom >= MUNICIPIO_ZOOM_THRESHOLD /\ s.currentMapLayer = "disease"
    THEN "dimmed"
    ELSE s.currentMapLayer

removeMunicipioLayers(s) ==
    [s EXCEPT
        !.muniOnMap = [u \in UFs |->
            IF s.loadedMunicipioLayers[u] # Null /\ s.muniOnMap[u] > 0
            THEN s.muniOnMap[u] - 1 ELSE s.muniOnMap[u]],
        !.loadedMunicipioLayers = [u \in UFs |-> Null]]

getVisibleUFs(s) ==
    IF s.geoLayer = NoLayer THEN {} ELSE s.viewport

\* Variant of MuniLoadStarts without the in-flight guard; C4 must not hold of it.
MuniLoadStarts_NoInFlightGuard(s, ufId) ==
    /\ s.loadedMunicipioLayers[ufId] = Null
    /\ ufId \in MAJOR_CITIES_BY_UF

\* The synchronous part of loadMunicipioLayer(ufId): the guards and the in-flight mark.
MuniLoadStarts(s, ufId) ==
    /\ s.loadedMunicipioLayers[ufId] = Null
    /\ ufId \notin s.loadingStates
    /\ ufId \in MAJOR_CITIES_BY_UF

\* The state ids for which handleZoomChange starts a load.
StartedLoads(s) ==
    IF s.zoom >= MUNICIPIO_ZOOM_THRESHOLD /\ s.currentMapLayer = "disease"
    THEN { u \in getVisibleUFs(s) : MuniLoadStarts(s, u) }
    ELSE {}

\* Variant of handleZoomChange whose else branch does nothing; C15 must not hold of it.
handleZoomChange_NoCleanup(s) ==
    IF s.zoom >= MUNICIPIO_ZOOM_THRESHOLD /\ s.currentMapLayer = "disease"
    THEN SetGeoStyle([s EXCEPT !.loadingStates = @ \cup StartedLoads(s)], "dimmed")
    ELSE s

handleZoomChange(s) ==
    IF s.zoom >= MUNICIPIO_ZOOM_THRESHOLD /\ s.currentMapLayer = "disease"
    THEN SetGeoStyle([s EXCEPT !.loadingStates = @ \cup StartedLoads(s)], "dimmed")
    ELSE LET r == removeMunicipioLayers(s)
         IN  SetGeoStyle(r, GeoStyleFn(r))

\* The suspended calls after handleZoomChange ran on s: each started load captured
\* currentDisease as the argument of fetchBulkMunicipioAlerts.
LoadsAfterZoomChange(s, loads) ==
    [u \in UFs |->
        IF u \in StartedLoads(s) THEN Append(loads[u], s.currentDisease) ELSE loads[u]]

clearHeatLayers(s) ==
    IF s.heatmapSvgOverlay
    THEN [s EXCEPT !.heatOnMap = IF @ > 0 THEN @ - 1 ELSE 0, !.heatmapSvgOverlay = FALSE]
    ELSE s

clearEsgotoRelevoLayer(s) ==
    IF s.esgotoRelevoLayer
    THEN [s EXCEPT !.reliefOnMap = IF @ > 0 THEN @ - 1 ELSE 0, !.esgotoRelevoLayer = FALSE]
    ELSE s

updateLegend(s, layer) == [s EXCEPT !.legend = layer]

setMapHeatmap(s, allData) ==
    LET s1 == clearHeatLayers([s EXCEPT !.allDiseaseDataForHeatmap = allData])
        s2 == SetGeoStyle(s1, "heatBackdrop")
        s3 == [s2 EXCEPT !.heatmapSvgOverlay = TRUE, !.heatOnMap = @ + 1]
    IN  updateLegend(s3, "heatmap")

setMapEsgotoRelevo(s) ==
    LET s1 == clearHeatLayers(clearEsgotoRelevoLayer(s))
        s2 == SetGeoStyle(s1, "reliefBackdrop")
        s3 == [s2 EXCEPT !.esgotoRelevoLayer = TRUE, !.reliefOnMap = @ + 1]
    IN  updateLegend(s3, "esgotoRelevo")

\* Variant of GeoLoaded that adds the new choropleth without removing the one geoLayer
\* refers to; C35 must not hold of it.
GeoLoaded_KeepsOld(s, capitalData) ==
    LET s1 == [s EXCEPT
                 !.geoOnMap = @ + 1,
                 !.geoLayer = [data |-> capitalData, style |-> GeoStyleFn(s)],
                 !.loadingHidden = TRUE]
    IN  IF s1.currentMapLayer = "heatmap" /\ s1.allDiseaseDataForHeatmap # {}
        THEN setMapHeatmap(s1, s1.allDiseaseDataForHeatmap)
        ELSE IF s1.currentMapLayer = "esgotoRelevo"
        THEN setMapEsgotoRelevo(s1)
        ELSE s1

\* The part of loadGeoJSON after `await fetchBrazilGeoJSON()` when the fetch succeeded.
GeoLoaded(s, capitalData) ==
    LET s1 == [s EXCEPT
                 !.geoOnMap = IF s.geoLayer # NoLayer /\ @ > 0 THEN @ ELSE @ + 1,
                 !.geoLayer = [data |-> capitalData, style |-> GeoStyleFn(s)],
                 !.loadingHidden = TRUE]
    IN  IF s1.currentMapLayer = "heatmap" /\ s1.allDiseaseDataForHeatmap # {}
        THEN setMapHeatmap(s1, s1.allDiseaseDataForHeatmap)
        ELSE IF s1.currentMapLayer = "esgotoRelevo"
        THEN setMapEsgotoRelevo(s1)
        ELSE s1

\* The catch branch of loadGeoJSON: the error text is written into the loading
\* element (mapError), whose class list is left alone.
GeoFailed(s) == [s EXCEPT !.mapError = TRUE]

\* The part of loadGeoJSON before the await.
loadGeoJSONCall(s, capitalData) == [s EXCEPT !.lastCapitalData = capitalData]

\* Variant of setMapLayerSync that clears neither the heat nor the relief artifacts;
\* C2 must not hold of it.
setMapLayerSync_NoClear(s, layer) ==
    LET s3 == removeMunicipioLayers([s EXCEPT !.currentMapLayer = layer])
    IN  IF layer = "heatmap"
        THEN IF s3.allDiseaseDataForHeatmap # {}
             THEN setMapHeatmap(s3, s3.allDiseaseDataForHeatmap)
             ELSE s3
        ELSE IF layer = "esgotoRelevo"
        THEN setMapEsgotoRelevo(s3)
        ELSE updateLegend(s3, layer)

\* Variant of setMapLayerSync that leaves the municipality layers alone; C16 must not
\* hold of it.
setMapLayerSync_KeepsMunicipalities(s, layer) ==
    LET s1 == [s EXCEPT !.currentMapLayer = layer]
        s2 == IF layer # "heatmap" THEN clearHeatLayers(s1) ELSE s1
        s3 == IF layer # "esgotoRelevo" THEN clearEsgotoRelevoLayer(s2) ELSE s2
    IN  IF layer = "heatmap"
        THEN IF s3.allDiseaseDataForHeatmap # {}
             THEN setMapHeatmap(s3, s3.allDiseaseDataForHeatmap)
             ELSE s3
        ELSE IF layer = "esgotoRelevo"
        THEN setMapEsgotoRelevo(s3)
        ELSE updateLegend(s3, layer)

\* setMapLayer up to its call of loadGeoJSON.
setMapLayerSync(s, layer) ==
    LET s1 == removeMunicipioLayers([s EXCEPT !.currentMapLayer = layer])
        s2 == IF layer # "heatmap" THEN clearHeatLayers(s1) ELSE s1
        s3 == IF layer # "esgotoRelevo" THEN clearEsgotoRelevoLayer(s2) ELSE s2
    IN  IF layer = "heatmap"
        THEN IF s3.allDiseaseDataForHeatmap # {}
             THEN setMapHeatmap(s3, s3.allDiseaseDataForHeatmap)
             ELSE s3
        ELSE IF layer = "esgotoRelevo"
        THEN setMapEsgotoRelevo(s3)
        ELSE updateLegend(s3, layer)

\* Whether setMapLayer(layer) calls loadGeoJSON(lastCapitalData).
ReloadsGeo(s, layer) == layer \notin {"heatmap", "esgotoRelevo"} /\ s.geoLayer # NoLayer

\* setMapDisease up to its call of handleZoomChange.
DropDiseaseLayers(s, disease) ==
    [s EXCEPT
        !.currentDisease = disease,
        !.muniOnMap = [u \in UFs |->
            IF s.loadedMunicipioLayers[u] # Null /\ s.muniOnMap[u] > 0
            THEN s.muniOnMap[u] - 1 ELSE s.muniOnMap[u]],
        !.municipioAlertCache = [u \in UFs |->
            IF s.loadedMunicipioLayers[u] # Null THEN Null ELSE s.municipioAlertCache[u]],
        !.loadedMunicipioLayers = [u \in UFs |-> Null]]

setMapDiseaseState(s, disease) ==
    LET s1 == DropDiseaseLayers(s, disease)
    IN  IF s1.zoom >= MUNICIPIO_ZOOM_THRESHOLD THEN handleZoomChange(s1) ELSE s1

setMapDiseaseLoads(s, disease, loads) ==
    LET s1 == DropDiseaseLayers(s, disease)
    IN  IF s1.zoom >= MUNICIPIO_ZOOM_THRESHOLD THEN LoadsAfterZoomChange(s1, loads) ELSE loads

\* ------------------------------------------------------------------ history
InitHist ==
    [seqPos |-> 0, suppressed |-> {}, zoomOutCleared |-> FALSE, layerCleared |-> FALSE,
     reusedFor |-> {}]

\* State ids whose loadMunicipioLayer call returns at the in-flight guard when
\* handleZoomChange runs on s.
Suppressed(s) ==
    IF s.zoom >= MUNICIPIO_ZOOM_THRESHOLD /\ s.currentMapLayer = "disease"
    THEN { u \in getVisibleUFs(s) : u \in s.loadingStates }
    ELSE {}

\* Progress through the call sequence heatmap, esgotoRelevo, disease of setMapLayer.
SeqStep(pos, layer) ==
    IF layer = "heatmap" THEN 1
    ELSE IF layer = "esgotoRelevo" /\ pos = 1 THEN 2
    ELSE IF layer = "disease" /\ pos = 2 THEN 3
    ELSE 0

\* --------------------------------------------------------- main.js UI state
InitUi ==
    [ currentDisease |-> "dengue",
      allDiseaseData |-> {},
      activeBtn |-> "disease",
      summaryShown |-> Null,
      scatterShown |-> Null,
      natRuns |-> [d \in Diseases |-> IF d = "dengue" THEN 1 ELSE 0] ]

\* The loadNationalData calls that have not returned yet.
RunCount == LET Sum[S \in SUBSET Diseases] ==
                    IF S = {} THEN 0
                    ELSE LET d == CHOOSE x \in S : TRUE IN ui.natRuns[d] + Sum[S \ {d}]
            IN  Sum[Diseases] + Len(pendingGeo)

\* loadNationalData from the return of `await loadGeoJSON(data)` on: lines 88-95.
NationalTail(s, u) ==
    IF u.activeBtn = "heatmap" THEN setMapHeatmap(s, Diseases) ELSE s

\* ------------------------------------------- api.js fetchNationalOverview
\* The head of the capitals array.
CapitalList ==
    << [geocode |-> 3550308, uf |-> "SP"], [geocode |-> 3304557, uf |-> "RJ"],
       [geocode |-> 3106200, uf |-> "MG"], [geocode |-> 2927408, uf |-> "BA"],
       [geocode |-> 5300108, uf |-> "DF"] >>

capitals == SubSeq(CapitalList, 1, Min2(NumCapitals, Len(CapitalList)))

\* The days of the year the overview is asked on: 1 January, and days in weeks 2,
\* 29 and 53.
DaySamples == {0, 10, 200, 365}

Max2(a, b) == IF a > b THEN a ELSE b

\* Math.min(Math.ceil(dayOfYear / 7), 52)
currentEW(dayOfYear) == Min2((dayOfYear + 6) \div 7, 52)

\* Math.max(1, currentEW - 4)
startEW(ew) == Max2(1, ew - 4)

\* A value that may be null: <<>> is null, <<x>> is x.
NoPoint == <<>>

\* Variant of capitalTask stamping the year asked for first instead of the year of
\* the attempt; C11 must not hold of it.
capitalTask_RequestedYear(cap, outcome, year) ==
    IF outcome.ok
    THEN LET data == SortBySE(outcome.raw)
         IN  [status |-> "fulfilled",
              value  |-> [geocode |-> cap.geocode, uf |-> cap.uf, data |-> data,
                          latest |-> IF Len(data) > 0 THEN <<data[Len(data)]>> ELSE NoPoint,
                          dataYear |-> CurrentYear]]
    ELSE [status |-> "fulfilled",
          value  |-> [geocode |-> cap.geocode, uf |-> cap.uf, data |-> <<>>,
                      latest |-> NoPoint, dataYear |-> CurrentYear]]

\* Variant of capitalTask without the catch: the rejection of the fetch becomes the
\* task's own; C10 must not hold of it.
capitalTask_NoCatch(cap, outcome, year) ==
    IF outcome.ok
    THEN LET data == SortBySE(outcome.raw)
         IN  [status |-> "fulfilled",
              value  |-> [geocode |-> cap.geocode, uf |-> cap.uf, data |-> data,
                          latest |-> IF Len(data) > 0 THEN <<data[Len(data)]>> ELSE NoPoint,
                          dataYear |-> year]]
    ELSE [status |-> "rejected",
          value  |-> [geocode |-> cap.geocode, uf |-> cap.uf, data |-> <<>>,
                      latest |-> NoPoint, dataYear |-> year]]

\* The task of one capital inside fetchForYear, settled: the fetch outcome is
\* [ok, raw]; a fulfilled fetch gives the sorted series and its last point, a
\* rejected one is caught and gives the empty summary.
capitalTask(cap, outcome, year) ==
    IF outcome.ok
    THEN LET data == SortBySE(outcome.raw)
         IN  [status |-> "fulfilled",
              value  |-> [geocode |-> cap.geocode, uf |-> cap.uf, data |-> data,
                          latest |-> IF Len(data) > 0 THEN <<data[Len(data)]>> ELSE NoPoint,
                          dataYear |-> year]]
    ELSE [status |-> "fulfilled",
          value  |-> [geocode |-> cap.geocode, uf |-> cap.uf, data |-> <<>>,
                      latest |-> NoPoint, dataYear |-> year]]

\* results.filter(r => r.status === 'fulfilled').map(r => r.value)
fetchForYearResult(results) ==
    LET F[i \in 0..Len(results)] ==
            IF i = 0 THEN <<>>
            ELSE IF results[i].status = "fulfilled"
                 THEN Append(F[i - 1], results[i].value) ELSE F[i - 1]
    IN  F[Len(results)]

\* Variant of hasData asking every capital for a latest point; C9 must not hold of it.
hasData_Every(data) == \A i \in 1..Len(data) : data[i].latest # NoPoint

\* data.some(d => d.latest !== null)
hasData(data) == \E i \in 1..Len(data) : data[i].latest # NoPoint

\* The attempt after the one for `year` that found nothing: the loop
\* for (y = currentYear - 1; y >= currentYear - 3; y--), or none.
HasNextYear(year) == year - 1 >= CurrentYear - 3

NoOutcome == [ok |-> FALSE, raw |-> <<>>]

NewAttempt(year, ewStart, ewEnd) ==
    [year |-> year, ewStart |-> ewStart, ewEnd |-> ewEnd,
     outcome |-> [c \in 1..Len(capitals) |-> NoOutcome]]

InitOverview ==
    [pc |-> "idle", disease |-> Null, currentEW |-> 0, tried |-> <<>>,
     pending |-> {}, result |-> <<>>]

\* The attempt in progress and the promises of its capitals once all have settled.
CurrentAttempt(o) == o.tried[Len(o.tried)]

SettledTasks(a) ==
    [c \in 1..Len(capitals) |-> capitalTask(capitals[c], a.outcome[c], a.year)]

\* fetchNationalOverview's fetcher from the return of `await fetchForYear(...)` on:
\* the attempt's data is returned, or the next year is asked for.
AfterAttempt(o) ==
    LET a    == CurrentAttempt(o)
        data == fetchForYearResult(SettledTasks(a))
    IN  IF hasData(data) \/ ~HasNextYear(a.year)
        THEN [o EXCEPT !.pc = "done", !.result = data]
        ELSE [o EXCEPT !.tried = Append(@, NewAttempt(a.year - 1, 1, 52)),
                       !.pending = 1..Len(capitals)]

\* The fetch of capital c in the attempt in progress settles with `outcome`.
CapitalSettles(o, c, outcome) ==
    LET o1 == [o EXCEPT !.tried[Len(o.tried)].outcome[c] = outcome,
                        !.pending = @ \ {c}]
    IN  IF o1.pending = {} THEN AfterAttempt(o1) ELSE o1

\* The key of the fetchDiseaseData call of capital c in attempt a.
CapitalKey(o, c) ==
    LET a == CurrentAttempt(o)
    IN  DiseaseDataKey(<<ToString(capitals[c].geocode), o.disease, ToString(a.ewStart),
                         ToString(a.ewEnd), ToString(a.year), ToString(a.year)>>)

NationalKey(disease) == cacheKey(<<"national", disease>>)

\* cachedFetch stores what the finished fetcher returned.
CacheAfterOverview(c, o) ==
    IF o.pc = "done" THEN CacheSet(c, NationalKey(o.disease), o.result) ELSE c

\* ------------------------------------------------------- cards.js aggregates
\* A field that may be missing or null: <<>> is absent, <<x>> is the value x.
Absent == <<>>

\* The alert records the aggregates are tried on: cumulative cases absent or present,
\* Rt absent, zero or positive, every alert level.
LatestSamples ==
    { [notif_accum_year |-> n, Rt |-> r, nivel |-> l] :
        n \in {Absent, <<2>>, <<5>>}, r \in {Absent, <<0>>, <<2>>}, l \in 1..4 }

\* The years an overview may carry: the current one, or an earlier one after a fallback.
YearSamples == {CurrentYear - 1, CurrentYear}

\* The capital summaries: latest null or an alert record.
SummarySamples ==
    { [latest |-> l, dataYear |-> y] :
        l \in {Absent} \cup { <<x>> : x \in LatestSamples },
        y \in YearSamples }

\* The overviews: fetchForYear stamps every summary of an overview with the same year.
SummarySeqs ==
    { s \in UNION { [1..n -> SummarySamples] : n \in 0..MaxSummaries } :
        \A i, j \in 1..Len(s) : s[i].dataYear = s[j].dataYear }

\* cap.latest.notif_accum_year || 0
casesOf(latest) == IF latest.notif_accum_year = Absent THEN 0 ELSE latest.notif_accum_year[1]

\* if (cap.latest.Rt): the truthiness of the field.
rtCounts(latest) == latest.Rt # Absent /\ latest.Rt[1] # 0

\* Variant of cardStep that keeps the cases of the capital at hand only; C18 must not
\* hold of it.
cardStep_LastOnly(acc, cap) ==
    IF cap.latest = Absent THEN acc
    ELSE LET l == cap.latest[1]
         IN  [acc EXCEPT
                !.totalCases = casesOf(l),
                !.avgRt = IF rtCounts(l) THEN @ + l.Rt[1] ELSE @,
                !.validRtCount = IF rtCounts(l) THEN @ + 1 ELSE @,
                !.maxLevel = IF l.nivel > @ THEN l.nivel ELSE @]

\* renderCards, the body of nationalData.forEach for one capital.
cardStep(acc, cap) ==
    IF cap.latest = Absent THEN acc
    ELSE LET l == cap.latest[1]
         IN  [acc EXCEPT
                !.totalCases = @ + casesOf(l),
                !.avgRt = IF rtCounts(l) THEN @ + l.Rt[1] ELSE @,
                !.validRtCount = IF rtCounts(l) THEN @ + 1 ELSE @,
                !.maxLevel = IF l.nivel > @ THEN l.nivel ELSE @]

\* renderCards, the aggregation of one disease: nationalData is <<>> (no data for the
\* disease) or <<the array>>.  avgRt is the sum until it is divided.
cardAggregate(nationalData) ==
    LET init == [totalCases |-> 0, avgRt |-> 0, maxLevel |-> 1, validRtCount |-> 0]
        data == IF nationalData = <<>> THEN <<>> ELSE nationalData[1]
        A[i \in 0..Len(data)] == IF i = 0 THEN init ELSE cardStep(A[i - 1], data[i])
    IN  A[Len(data)]

\* Variant of cardDataYear that reads the year of the capitals with a latest only; C28
\* must not hold of it.
cardDataYear_OnlyWithLatest(nationalData) ==
    LET data == IF nationalData = <<>> THEN <<>> ELSE nationalData[1]
        Y[i \in 0..Len(data)] ==
            IF i = 0 THEN CurrentYear
            ELSE IF data[i].latest # Absent /\ data[i].dataYear # 0
                 THEN data[i].dataYear ELSE Y[i - 1]
    IN  Y[Len(data)]

\* renderCards, dataYear: the current year, replaced by every truthy cap.dataYear.
cardDataYear(nationalData) ==
    LET data == IF nationalData = <<>> THEN <<>> ELSE nationalData[1]
        Y[i \in 0..Len(data)] ==
            IF i = 0 THEN CurrentYear
            ELSE IF data[i].dataYear # 0 THEN data[i].dataYear ELSE Y[i - 1]
    IN  Y[Len(data)]

\* The year note of a card: the year named when isOldData, else no note.
cardYearNote(nationalData) ==
    LET dataYear == cardDataYear(nationalData)
    IN  IF dataYear < CurrentYear THEN <<dataYear>> ELSE Absent

\* (n / d).toFixed(2), in hundredths.
toFixed2(n, d) == (200 * n + d) \div (2 * d)

\* What a card shows: the total, the mean Rt in hundredths and the badge level.
cardShows(agg) ==
    [totalCases |-> agg.totalCases,
     avgRt      |-> IF agg.validRtCount > 0 THEN toFixed2(agg.avgRt, agg.validRtCount) ELSE 0,
     maxLevel   |-> agg.maxLevel]

\* Variant of summaryStep that counts a capital only above level 3; C21 must not hold
\* of it.
summaryStep_AboveThree(acc, cap) ==
    IF cap.latest = Absent THEN acc
    ELSE LET l == cap.latest[1]
         IN  [acc EXCEPT
                !.totalCases = @ + casesOf(l),
                !.alertCities = IF l.nivel > 3 THEN @ + 1 ELSE @,
                !.avgRt = IF rtCounts(l) THEN @ + l.Rt[1] ELSE @,
                !.rtCount = IF rtCounts(l) THEN @ + 1 ELSE @]

\* updateNationalSummary, the body of nationalData.forEach for one capital.
summaryStep(acc, cap) ==
    IF cap.latest = Absent THEN acc
    ELSE LET l == cap.latest[1]
         IN  [acc EXCEPT
                !.totalCases = @ + casesOf(l),
                !.alertCities = IF l.nivel >= 3 THEN @ + 1 ELSE @,
                !.avgRt = IF rtCounts(l) THEN @ + l.Rt[1] ELSE @,
                !.rtCount = IF rtCounts(l) THEN @ + 1 ELSE @]

summaryAggregate(data) ==
    LET init == [totalCases |-> 0, alertCities |-> 0, avgRt |-> 0, rtCount |-> 0]
        A[i \in 0..Len(data)] == IF i = 0 THEN init ELSE summaryStep(A[i - 1], data[i])
    IN  A[Len(data)]

\* updateNationalSummary(nationalData) on the three summary elements: nothing is
\* written for an empty array.
updateNationalSummary(shown, nationalData) ==
    IF Len(nationalData) = 0 THEN shown
    ELSE LET agg == summaryAggregate(nationalData)
         IN  [totalCases  |-> agg.totalCases,
              alertCities |-> agg.alertCities,
              avgRt       |-> IF agg.rtCount > 0 THEN toFixed2(agg.avgRt, agg.rtCount)
                              ELSE toFixed2(agg.avgRt, 1)]

\* The summary elements before the first write: zeros.
ZeroSummary == [totalCases |-> 0, alertCities |-> 0, avgRt |-> 0]

\* data: the overview the calls draw their arguments from; summaryArg, cardArg: the
\* last argument of updateNationalSummary and of renderCards for the disease.
InitCardsState(data) ==
    [data |-> data,
     summaryCalls |-> 0, summaryArg |-> <<>>, summaryShown |-> ZeroSummary,
     cardCalls |-> 0, cardArg |-> <<>>, cardShown |-> cardShows(cardAggregate(<<>>)),
     cardNote |-> cardYearNote(<<>>)]

\* ------------------------------------------------------------- charts.js
\* Epidemiological weeks run from 1 to 52.
WeeksPerYear == 52

\* Variant of weekToMonth with the upper weeks of each month excluded; C22 must not
\* hold of it.
weekToMonth_Exclusive(week) ==
    IF week < 4 THEN 0
    ELSE IF week < 9 THEN 1
    ELSE IF week < 13 THEN 2
    ELSE IF week < 17 THEN 3
    ELSE IF week < 22 THEN 4
    ELSE IF week < 26 THEN 5
    ELSE IF week < 30 THEN 6
    ELSE IF week < 35 THEN 7
    ELSE IF week < 39 THEN 8
    ELSE IF week < 43 THEN 9
    ELSE IF week < 48 THEN 10
    ELSE 11

weekToMonth(week) ==
    IF week <= 4 THEN 0
    ELSE IF week <= 9 THEN 1
    ELSE IF week <= 13 THEN 2
    ELSE IF week <= 17 THEN 3
    ELSE IF week <= 22 THEN 4
    ELSE IF week <= 26 THEN 5
    ELSE IF week <= 30 THEN 6
    ELSE IF week <= 35 THEN 7
    ELSE IF week <= 39 THEN 8
    ELSE IF week <= 43 THEN 9
    ELSE IF week <= 48 THEN 10
    ELSE 11

\* getSanitationData(): the table by state abbreviation, percentages in tenths.
getSanitationData ==
    [uf \in {"AC", "AL", "AM", "AP", "BA", "CE", "DF", "ES", "GO", "MA", "MG", "MS", "MT",
             "PA", "PB", "PE", "PI", "PR", "RJ", "RN", "RO", "RR", "RS", "SC", "SE", "SP",
             "TO"} |->
        CASE uf = "AC" -> [coletaEsgoto |-> 144, tratamentoEsgoto |-> 208]
          [] uf = "AL" -> [coletaEsgoto |-> 296, tratamentoEsgoto |-> 301]
          [] uf = "AM" -> [coletaEsgoto |-> 142, tratamentoEsgoto |-> 335]
          [] uf = "AP" -> [coletaEsgoto |-> 61, tratamentoEsgoto |-> 118]
          [] uf = "BA" -> [coletaEsgoto |-> 358, tratamentoEsgoto |-> 524]
          [] uf = "CE" -> [coletaEsgoto |-> 299, tratamentoEsgoto |-> 421]
          [] uf = "DF" -> [coletaEsgoto |-> 905, tratamentoEsgoto |-> 823]
          [] uf = "ES" -> [coletaEsgoto |-> 574, tratamentoEsgoto |-> 517]
          [] uf = "GO" -> [coletaEsgoto |-> 580, tratamentoEsgoto |-> 673]
          [] uf = "MA" -> [coletaEsgoto |-> 137, tratamentoEsgoto |-> 178]
          [] uf = "MG" -> [coletaEsgoto |-> 714, tratamentoEsgoto |-> 465]
          [] uf = "MS" -> [coletaEsgoto |-> 465, tratamentoEsgoto |-> 628]
          [] uf = "MT" -> [coletaEsgoto |-> 362, tratamentoEsgoto |-> 637]
          [] uf = "PA" -> [coletaEsgoto |-> 84, tratamentoEsgoto |-> 152]
          [] uf = "PB" -> [coletaEsgoto |-> 367, tratamentoEsgoto |-> 432]
          [] uf = "PE" -> [coletaEsgoto |-> 328, tratamentoEsgoto |-> 395]
          [] uf = "PI" -> [coletaEsgoto |-> 128, tratamentoEsgoto |-> 221]
          [] uf = "PR" -> [coletaEsgoto |-> 744, tratamentoEsgoto |-> 831]
          [] uf = "RJ" -> [coletaEsgoto |-> 653, tratamentoEsgoto |-> 418]
          [] uf = "RN" -> [coletaEsgoto |-> 269, tratamentoEsgoto |-> 347]
          [] uf = "RO" -> [coletaEsgoto |-> 75, tratamentoEsgoto |-> 139]
          [] uf = "RR" -> [coletaEsgoto |-> 226, tratamentoEsgoto |-> 412]
          [] uf = "RS" -> [coletaEsgoto |-> 332, tratamentoEsgoto |-> 446]
          [] uf = "SC" -> [coletaEsgoto |-> 308, tratamentoEsgoto |-> 462]
          [] uf = "SE" -> [coletaEsgoto |-> 230, tratamentoEsgoto |-> 368]
          [] uf = "SP" -> [coletaEsgoto |-> 896, tratamentoEsgoto |-> 734]
          [] uf = "TO" -> [coletaEsgoto |-> 274, tratamentoEsgoto |-> 553]]

\* The measurements a series point may carry: cases missing or present, temperature
\* missing, zero or positive, humidity missing or present.
ClimateSamples ==
    { [casos |-> Absent, tempmed |-> Absent, umidmed |-> <<80>>],
      [casos |-> <<3>>,  tempmed |-> <<20>>, umidmed |-> <<60>>],
      [casos |-> <<5>>,  tempmed |-> <<0>>,  umidmed |-> Absent] }

PointSamples ==
    { [SE |-> CurrentYear * 100 + w, casos |-> c.casos, tempmed |-> c.tempmed,
       umidmed |-> c.umidmed] : w \in 1..WeeksPerYear, c \in ClimateSamples }

\* The series fetchDiseaseData resolves with: up to MaxSeriesLen points, ascending by SE.
SeriesSamples ==
    { s \in UNION { [1..n -> PointSamples] : n \in 0..MaxSeriesLen } :
        \A i \in 1..(Len(s) - 1) : s[i].SE <= s[i + 1].SE }

\* A location name is a sequence of pieces; SEP is the piece ' - ' and BLANK a space.
SEP == " - "

BLANK == " "

\* The names the tracker is tried on: no separator, a state of the table after the
\* separator (also followed by a blank), an unknown state, nothing after the
\* separator, and a state without the separator.
NameSamples ==
    { <<"Brasil">>,
      <<"Recife", SEP, "PE">>,
      <<"Recife", SEP, "PE", BLANK>>,
      <<"Recife", SEP, "ZZ">>,
      <<"Recife", SEP>>,
      <<"Recife", BLANK, "PE">> }

\* locationName.split(' - ')
split(name) ==
    LET F[i \in 0..Len(name)] ==
            IF i = 0 THEN << <<>> >>
            ELSE IF name[i] = SEP THEN Append(F[i - 1], <<>>)
            ELSE [F[i - 1] EXCEPT ![Len(F[i - 1])] = Append(@, name[i])]
    IN  F[Len(name)]

\* String.prototype.trim
trim(part) ==
    LET I == { i \in 1..Len(part) : part[i] # BLANK }
    IN  IF I = {} THEN <<>>
        ELSE SubSeq(part, CHOOSE a \in I : \A x \in I : a <= x,
                          CHOOSE b \in I : \A x \in I : x <= b)

\* sanitationData[uf] for the text of a part, Absent when it is no key of the table.
sanitationOf(part) ==
    IF Len(part) = 1 /\ part[1] \in DOMAIN getSanitationData
    THEN <<getSanitationData[part[1]]>> ELSE Absent

\* The twelve accumulators of renderCorrelationChart, month m at position m + 1.
monthlyInit ==
    [m \in 1..12 |-> [casos |-> 0, tempSum |-> 0, tempCount |-> 0,
                      umidSum |-> 0, umidCount |-> 0]]

\* The body of data.forEach for the point d.
monthlyStep(md, d) ==
    LET m == weekToMonth(d.SE % 100)
    IN  [md EXCEPT ![m + 1] =
            [casos     |-> @.casos + (IF d.casos = Absent THEN 0 ELSE d.casos[1]),
             tempSum   |-> IF d.tempmed # Absent THEN @.tempSum + d.tempmed[1] ELSE @.tempSum,
             tempCount |-> IF d.tempmed # Absent THEN @.tempCount + 1 ELSE @.tempCount,
             umidSum   |-> IF d.umidmed # Absent THEN @.umidSum + d.umidmed[1] ELSE @.umidSum,
             umidCount |-> IF d.umidmed # Absent THEN @.umidCount + 1 ELSE @.umidCount]]

monthlyData(data) ==
    LET A[i \in 0..Len(data)] == IF i = 0 THEN monthlyInit ELSE monthlyStep(A[i - 1], data[i])
    IN  A[Len(data)]

\* The plotted values: a count is <<n>>, a mean is the quotient <<sum, count>>, null
\* is Absent.
casosArray(md) == [m \in 1..12 |-> <<md[m].casos>>]

\* Variant of tempArray that plots 0 for a month without a temperature; C23 must not
\* hold of it.
tempArray_ZeroWhenNone(md) ==
    [m \in 1..12 |-> IF md[m].tempCount > 0 THEN <<md[m].tempSum, md[m].tempCount>> ELSE <<0, 1>>]

tempArray(md) ==
    [m \in 1..12 |-> IF md[m].tempCount > 0 THEN <<md[m].tempSum, md[m].tempCount>> ELSE Absent]

umidArray(md) ==
    [m \in 1..12 |-> IF md[m].umidCount > 0 THEN <<md[m].umidSum, md[m].umidCount>> ELSE Absent]

\* Variant of sanitationLines that draws the lines for every name; C25 must not hold
\* of it.
sanitationLines_Always(name) ==
    LET san == getSanitationData["SP"]
    IN  << [location |-> name, kind |-> "Coleta de Esgoto (%)",
            data |-> [m \in 1..12 |-> <<san.coletaEsgoto>>]],
           [location |-> name, kind |-> "Trat. Esgoto (%)",
            data |-> [m \in 1..12 |-> <<san.tratamentoEsgoto>>]] >>

\* The sanitation reference lines of a location: parts = name.split(' - '), and the
\* lines are pushed when parts.length > 1 and parts[1].trim() is in the table.
sanitationLines(name) ==
    LET parts == split(name)
        san   == IF Len(parts) > 1 THEN sanitationOf(trim(parts[2])) ELSE Absent
    IN  IF san = Absent THEN <<>>
        ELSE << [location |-> name, kind |-> "Coleta de Esgoto (%)",
                 data |-> [m \in 1..12 |-> <<san[1].coletaEsgoto>>]],
                [location |-> name, kind |-> "Trat. Esgoto (%)",
                 data |-> [m \in 1..12 |-> <<san[1].tratamentoEsgoto>>]] >>

\* The body of the loop over datasetsMap for one location: nothing for an empty
\* series, else cases, humidity, temperature and the sanitation lines.
locationDatasets(name, data) ==
    IF Len(data) = 0 THEN <<>>
    ELSE LET md == monthlyData(data)
         IN  << [location |-> name, kind |-> "Casos", data |-> casosArray(md)],
                [location |-> name, kind |-> "Umidade Média (%)", data |-> umidArray(md)],
                [location |-> name, kind |-> "Temp. Média (°C)", data |-> tempArray(md)] >>
             \o sanitationLines(name)

\* renderCorrelationChart(datasetsMap): the old chart is destroyed; an empty map shows
\* the empty state; a chart is built from the datasets unless there is none.
renderCorrelationChart(c, datasetsMap) ==
    IF Len(datasetsMap) = 0
    THEN [c EXCEPT !.mainChart = Absent, !.canvasHidden = TRUE, !.emptyShown = TRUE]
    ELSE LET D[i \in 0..Len(datasetsMap)] ==
                 IF i = 0 THEN <<>>
                 ELSE D[i - 1] \o locationDatasets(datasetsMap[i].name, datasetsMap[i].data)
             datasets == D[Len(datasetsMap)]
         IN  [c EXCEPT !.mainChart = IF Len(datasets) = 0 THEN Absent ELSE <<datasets>>,
                       !.canvasHidden = FALSE, !.emptyShown = FALSE]

\* The capital summaries renderSanitationCorrelation is tried on: states of the table
\* and an unknown one, latest null or with the incidence missing or present.
ScatterSamples ==
    { [uf |-> u, latest |-> l] :
        u \in {"SP", "PE", "DF", "ZZ"},
        l \in {Absent, <<[p_inc100k |-> Absent]>>, <<[p_inc100k |-> <<7>>]>>} }

ScatterSeqs == UNION { [1..n -> ScatterSamples] : n \in 0..MaxSummaries }

\* Variant of scatterData without the sanitation filter: a capital of an unknown state
\* gives a point with a null x; C24 must not hold of it.
scatterData_NoSanitationFilter(capitalData) ==
    LET F[i \in 0..Len(capitalData)] ==
            IF i = 0 THEN <<>>
            ELSE LET c == capitalData[i]
                 IN  IF c.latest # Absent
                     THEN Append(F[i - 1],
                            [x |-> IF c.uf \in DOMAIN getSanitationData
                                   THEN <<getSanitationData[c.uf].coletaEsgoto>> ELSE Absent,
                             y |-> IF c.latest[1].p_inc100k = Absent THEN 0
                                   ELSE c.latest[1].p_inc100k[1],
                             uf |-> c.uf, index |-> i])
                     ELSE F[i - 1]
    IN  F[Len(capitalData)]

\* capitalData.filter(c => c.latest && sanitationData[c.uf]).map(...); index is the
\* position of the summary a point was made from.
scatterData(capitalData) ==
    LET F[i \in 0..Len(capitalData)] ==
            IF i = 0 THEN <<>>
            ELSE LET c == capitalData[i]
                 IN  IF c.latest # Absent /\ c.uf \in DOMAIN getSanitationData
                     THEN Append(F[i - 1],
                            [x |-> <<getSanitationData[c.uf].coletaEsgoto>>,
                             y |-> IF c.latest[1].p_inc100k = Absent THEN 0
                                   ELSE c.latest[1].p_inc100k[1],
                             uf |-> c.uf, index |-> i])
                     ELSE F[i - 1]
    IN  F[Len(capitalData)]

\* renderSanitationCorrelation(containerId, capitalData): the existing chart is
\* destroyed, and a new one is built unless capitalData is empty.
renderSanitationCorrelation(c, capitalData) ==
    [c EXCEPT !.scatterCalls = @ + 1, !.scatterArg = capitalData,
              !.scatter = IF Len(capitalData) = 0 THEN Absent
                          ELSE <<scatterData(capitalData)>>]

\* state.trackerDatasets and the two charts before anything was added; months holds,
\* for each point of the series drawn last, its week and the month index computed for it.
InitChartsState ==
    [trackerDatasets |-> <<>>, months |-> <<>>, mainChart |-> Absent,
     canvasHidden |-> FALSE, emptyShown |-> TRUE,
     scatterCalls |-> 0, scatterArg |-> <<>>, scatter |-> Absent]

\* ------------------------------------------------ api.js bulk municipality alerts
\* Geocodes of MAJOR_CITIES_BY_UF[35] and the lists fetchBulkMunicipioAlerts is called
\* with: up to MaxGeocodes different geocodes.
GeocodeSamples == {3550308, 3518800}

GeocodeLists ==
    { l \in UNION { [1..n -> GeocodeSamples] : n \in 0..MaxGeocodes } :
        \A i, j \in 1..Len(l) : l[i] = l[j] => i = j }

\* Math.max(1, currentEW - 2)
bulkStartEW(ew) == Max2(1, ew - 2)

\* The key of the fetchDiseaseData call for geocode g.
BulkKey(g, disease, ew) ==
    DiseaseDataKey(<<ToString(g), disease, ToString(bulkStartEW(ew)), ToString(ew),
                     ToString(CurrentYear), ToString(CurrentYear)>>)

\* Variant of bulkTask taking the first point of the series as latest; C26 must not
\* hold of it.
bulkTask_FirstPoint(geocode, outcome) ==
    IF outcome.ok
    THEN LET data == outcome.data
         IN  [status |-> "fulfilled",
              value  |-> [geocode |-> geocode, data |-> data,
                          latest |-> IF Len(data) > 0 THEN <<data[1]>> ELSE NoPoint]]
    ELSE [status |-> "fulfilled",
          value  |-> [geocode |-> geocode, data |-> <<>>, latest |-> NoPoint]]

\* The task of one geocode, settled: outcome is [ok, data] of its fetchDiseaseData
\* call; a rejection is caught and gives the empty entry.
bulkTask(geocode, outcome) ==
    IF outcome.ok
    THEN LET data == outcome.data
         IN  [status |-> "fulfilled",
              value  |-> [geocode |-> geocode, data |-> data,
                          latest |-> IF Len(data) > 0 THEN <<data[Len(data)]>> ELSE NoPoint]]
    ELSE [status |-> "fulfilled",
          value  |-> [geocode |-> geocode, data |-> <<>>, latest |-> NoPoint]]

\* results.filter(r => r.status === 'fulfilled').forEach(...): alertMap gets the latest
\* of every fulfilled task that has one, a later task overwriting an earlier one.
alertMapOf(results) ==
    LET F[i \in 0..Len(results)] ==
            IF i = 0 THEN [g \in {} |-> 0]
            ELSE IF results[i].status = "fulfilled" /\ results[i].value.latest # NoPoint
                 THEN [g \in (DOMAIN F[i - 1]) \cup {results[i].value.geocode} |->
                         IF g = results[i].value.geocode THEN results[i].value.latest[1]
                         ELSE F[i - 1][g]]
                 ELSE F[i - 1]
    IN  F[Len(results)]

NoBulkOutcome == [ok |-> FALSE, data |-> <<>>]

InitBulk ==
    [pc |-> "idle", geocodes |-> <<>>, disease |-> Null, currentEW |-> 0,
     outcome |-> <<>>, raw |-> <<>>, pending |-> {}, alertMap |-> [g \in {} |-> 0]]

\* fetchBulkMunicipioAlerts from the return of `await Promise.allSettled(...)` on.
AfterBulkSettled(b) ==
    IF b.pending # {} THEN b
    ELSE [b EXCEPT !.pc = "fulfilled",
                   !.alertMap = alertMapOf([i \in 1..Len(b.geocodes) |->
                                               bulkTask(b.geocodes[i], b.outcome[i])])]

\* ------------------------------------------------------------------ actions
\* updateNationalSummary is called with the first k summaries of the overview.
UpdateNationalSummary(k) ==
    /\ k \in 0..Len(cd.data)
    /\ cd.summaryCalls < MaxCalls
    /\ LET arg == SubSeq(cd.data, 1, k)
       IN  cd' = [cd EXCEPT !.summaryCalls = @ + 1, !.summaryArg = arg,
                            !.summaryShown = updateNationalSummary(@, arg)]
    /\ UNCHANGED <<tk, sc, nl, bk, ch, mp, muniLoads, pendingGeo, ui, cache, cs, ov, hist>>

\* renderCards is called with the first k summaries of the overview as the disease's
\* entry of diseaseDataMap.
RenderCards(k) ==
    /\ k \in 0..Len(cd.data)
    /\ cd.cardCalls < MaxCalls
    /\ LET arg == SubSeq(cd.data, 1, k)
       IN  cd' = [cd EXCEPT !.cardCalls = @ + 1, !.cardArg = arg,
                            !.cardShown = cardShows(cardAggregate(<<arg>>)),
                            !.cardNote = cardYearNote(<<arg>>)]
    /\ UNCHANGED <<tk, sc, nl, bk, ch, mp, muniLoads, pendingGeo, ui, cache, cs, ov, hist>>

\* main.js addTrackerLocation(geocode, name) from the return of its await on: the
\* series is stored under the name and updateTrackerCharts redraws the chart.
AddTrackerLocation(name, data) ==
    /\ Len(ch.trackerDatasets) < MaxLocations
    /\ \A i \in 1..Len(ch.trackerDatasets) : ch.trackerDatasets[i].name # name
    /\ LET ds == Append(ch.trackerDatasets, [name |-> name, data |-> data])
       IN  ch' = [renderCorrelationChart(ch, ds) EXCEPT
                    !.trackerDatasets = ds,
                    !.months = [i \in 1..Len(data) |->
                                  <<data[i].SE % 100, weekToMonth(data[i].SE % 100)>>]]
    /\ UNCHANGED <<tk, sc, nl, bk, mp, muniLoads, pendingGeo, ui, cache, cs, ov, cd, hist>>

\* main.js removeTrackerLocation: the entry is deleted and the chart redrawn.
RemoveTrackerLocation(i) ==
    /\ i \in 1..Len(ch.trackerDatasets)
    /\ LET ds == RemoveAt(ch.trackerDatasets, i)
       IN  ch' = [renderCorrelationChart(ch, ds) EXCEPT !.trackerDatasets = ds,
                                                        !.months = <<>>]
    /\ UNCHANGED <<tk, sc, nl, bk, mp, muniLoads, pendingGeo, ui, cache, cs, ov, cd, hist>>

\* renderSanitationCorrelation is called with an overview.
RenderSanitationCorrelation(capitalData) ==
    /\ ch.scatterCalls < MaxCalls
    /\ ch' = renderSanitationCorrelation(ch, capitalData)
    /\ UNCHANGED <<tk, sc, nl, bk, mp, muniLoads, pendingGeo, ui, cache, cs, ov, cd, hist>>

\* fetchBulkMunicipioAlerts(geocodes, disease) is called on day `day` of the year: the
\* memoized series are returned at once, a request goes out for each other geocode.
FetchBulkMunicipioAlertsCall(geocodes, disease, day) ==
    /\ bk.pc = "idle"
    /\ LET ew   == currentEW(day)
           hit  == { i \in 1..Len(geocodes) : CacheHas(cache, BulkKey(geocodes[i], disease, ew)) }
       IN  bk' = AfterBulkSettled(
                   [bk EXCEPT !.pc = "fetching", !.geocodes = geocodes, !.disease = disease,
                              !.currentEW = ew,
                              !.outcome = [i \in 1..Len(geocodes) |->
                                  IF i \in hit
                                  THEN [ok |-> TRUE,
                                        data |-> cache[BulkKey(geocodes[i], disease, ew)]]
                                  ELSE NoBulkOutcome],
                              !.raw = [i \in 1..Len(geocodes) |-> <<>>],
                              !.pending = (1..Len(geocodes)) \ hit])
    /\ UNCHANGED <<tk, sc, nl, mp, muniLoads, pendingGeo, ui, cache, cs, ov, cd, ch, hist>>

\* The request of the i-th geocode is answered with status ok and the series raw:
\* fetchDiseaseData sorts and memoizes it.
GeocodeResponds(i, raw) ==
    /\ bk.pc = "fetching"
    /\ i \in bk.pending
    /\ bk' = AfterBulkSettled(
               [bk EXCEPT !.outcome[i] = [ok |-> TRUE, data |-> SortBySE(raw)],
                          !.raw[i] = raw,
                          !.pending = @ \ {i}])
    /\ cache' = CacheSet(cache, BulkKey(bk.geocodes[i], bk.disease, bk.currentEW),
                         SortBySE(raw))
    /\ UNCHANGED <<tk, sc, nl, mp, muniLoads, pendingGeo, ui, cs, ov, cd, ch, hist>>

\* The request of the i-th geocode fails: fetchDiseaseData rejects.
GeocodeFails(i) ==
    /\ bk.pc = "fetching"
    /\ i \in bk.pending
    /\ bk' = AfterBulkSettled([bk EXCEPT !.outcome[i] = NoBulkOutcome, !.pending = @ \ {i}])
    /\ UNCHANGED <<tk, sc, nl, mp, muniLoads, pendingGeo, ui, cache, cs, ov, cd, ch, hist>>

\* fetchNationalOverview(disease) is called on day `day` of the year with nothing
\* memoized: the fetcher runs up to `await fetchForYear(currentYear, startEW, currentEW)`.
FetchNationalOverviewCall(disease, day) ==
    /\ ov.pc = "idle"
    /\ ~CacheHas(cache, NationalKey(disease))
    /\ ov' = [ov EXCEPT !.pc = "fetching", !.disease = disease,
                        !.currentEW = currentEW(day),
                        !.tried = <<NewAttempt(CurrentYear, startEW(currentEW(day)),
                                               currentEW(day))>>,
                        !.pending = 1..Len(capitals)]
    /\ UNCHANGED <<tk, sc, nl, bk, ch, cd, mp, muniLoads, pendingGeo, ui, cache, cs, hist>>

\* The request of capital c is answered with status ok and the series raw.
CapitalResponds(c, raw) ==
    /\ ov.pc = "fetching"
    /\ c \in ov.pending
    /\ ov' = CapitalSettles(ov, c, [ok |-> TRUE, raw |-> raw])
    /\ cache' = CacheAfterOverview(CacheSet(cache, CapitalKey(ov, c), SortBySE(raw)), ov')
    /\ UNCHANGED <<tk, sc, nl, bk, ch, cd, mp, muniLoads, pendingGeo, ui, cs, hist>>

\* The request of capital c fails: fetchDiseaseData rejects.
CapitalFails(c) ==
    /\ ov.pc = "fetching"
    /\ c \in ov.pending
    /\ ov' = CapitalSettles(ov, c, NoOutcome)
    /\ cache' = CacheAfterOverview(cache, ov')
    /\ UNCHANGED <<tk, sc, nl, bk, ch, cd, mp, muniLoads, pendingGeo, ui, cs, hist>>

\* loadGeoJSON(capitalData) called on map state s; `tail` says whether the caller is
\* loadNationalData, which awaits it.  With the boundary document memoized the awaited
\* fetch resolves without a network round trip, before any other event is handled.
LoadGeoJSON(s, capitalData, tail) ==
    LET s1 == loadGeoJSONCall(s, capitalData)
    IN  IF CacheHas(cache, BrazilGeoKey)
        THEN /\ mp' = IF tail
                      THEN NationalTail(GeoLoaded(s1, capitalData), ui)
                      ELSE GeoLoaded(s1, capitalData)
             /\ pendingGeo' = pendingGeo
        ELSE /\ mp' = s1
             /\ pendingGeo' = Append(pendingGeo, [data |-> capitalData, tail |-> tail])

\* main.js, the click handler of a layer button.
ClickLayerButton(layer) ==
    /\ ui' = [ui EXCEPT !.activeBtn = layer]
    /\ IF layer = "heatmap"
       THEN mp' = setMapHeatmap(mp, ui.allDiseaseData) /\ pendingGeo' = pendingGeo
       ELSE IF layer = "esgotoRelevo"
       THEN mp' = setMapEsgotoRelevo(mp) /\ pendingGeo' = pendingGeo
       ELSE LET s == setMapLayerSync(mp, layer)
            IN  IF ReloadsGeo(s, layer)
                THEN LoadGeoJSON(s, s.lastCapitalData, FALSE)
                ELSE mp' = s /\ pendingGeo' = pendingGeo
    /\ UNCHANGED <<tk, sc, nl, bk, ch, cd, muniLoads, cache, cs, ov, hist>>

\* map.js setMapLayer(layer), called directly with any of the five layers.
SetMapLayer(layer) ==
    /\ LET s == setMapLayerSync(mp, layer)
       IN  IF ReloadsGeo(s, layer)
           THEN LoadGeoJSON(s, s.lastCapitalData, FALSE)
           ELSE mp' = s /\ pendingGeo' = pendingGeo
    /\ hist' = [hist EXCEPT
                  !.seqPos = SeqStep(@, layer),
                  !.layerCleared =
                      /\ layer = "disease"
                      /\ mp.zoom >= MUNICIPIO_ZOOM_THRESHOLD
                      /\ \E u \in UFs : mp.muniOnMap[u] > 0]
    /\ UNCHANGED <<tk, sc, nl, bk, ch, cd, muniLoads, cache, cs, ov, ui>>

\* Leaflet zoomend / moveend: the viewport settled at zoom z showing the states vp
\* (a pan may leave both as they were).
MapMoveEnd(z, vp) ==
    /\ LET s == [mp EXCEPT !.zoom = z, !.viewport = vp]
       IN  /\ mp' = handleZoomChange(s)
           /\ muniLoads' = LoadsAfterZoomChange(s, muniLoads)
           /\ hist' = [hist EXCEPT
                         !.suppressed = @ \cup Suppressed(s),
                         !.zoomOutCleared =
                             /\ z < MUNICIPIO_ZOOM_THRESHOLD
                             /\ \E u \in UFs : mp.muniOnMap[u] > 0]
    /\ UNCHANGED <<tk, sc, nl, bk, ch, cd, pendingGeo, ui, cache, cs, ov>>

\* loadMunicipioLayer(ufId) after its await, both fetches fulfilled: lines 141-191, 196.
MuniLoaded(s, ufId, disease) ==
    [s EXCEPT
        !.municipioAlertCache[ufId] = disease,
        !.muniOnMap[ufId] = @ + 1,
        !.loadedMunicipioLayers[ufId] = disease,
        !.loadingStates = @ \ {ufId}]

\* Variant of MuniFailed without the finally block; C36 must not hold of it.
MuniFailed_KeepsMarker(s, ufId) == s

\* loadMunicipioLayer(ufId) after its await, fetchStateGeoJSON rejected: lines 193-196.
MuniFailed(s, ufId) == [s EXCEPT !.loadingStates = @ \ {ufId}]

MuniLoadSettles(ufId, ok) ==
    /\ muniLoads[ufId] # <<>>
    /\ ok \/ ~CacheHas(cache, StateGeoKey(ufId))
    /\ muniLoads' = [muniLoads EXCEPT ![ufId] = Tail(@)]
    /\ mp' = IF ok THEN MuniLoaded(mp, ufId, Head(muniLoads[ufId])) ELSE MuniFailed(mp, ufId)
    /\ cache' = IF ok THEN CacheSet(cache, StateGeoKey(ufId), "geojson") ELSE cache
    /\ hist' = [hist EXCEPT !.suppressed = @ \ {ufId}]
    /\ UNCHANGED <<tk, sc, nl, bk, ch, cd, pendingGeo, ui, cs, ov>>

\* main.js, the disease card callback: state.currentDisease, setMapDisease, loadNationalData.
ClickDiseaseCard(disease) ==
    /\ RunCount < MaxRuns
    /\ ui' = [ui EXCEPT !.currentDisease = disease, !.natRuns[disease] = @ + 1]
    /\ mp' = setMapDiseaseState(mp, disease)
    /\ muniLoads' = setMapDiseaseLoads(mp, disease, muniLoads)
    /\ hist' = [hist EXCEPT !.suppressed =
                    IF mp.zoom >= MUNICIPIO_ZOOM_THRESHOLD
                    THEN @ \cup Suppressed(DropDiseaseLayers(mp, disease)) ELSE @]
    /\ UNCHANGED <<tk, sc, nl, bk, ch, cd, pendingGeo, cache, cs, ov>>

\* A running loadNationalData(disease) has its fetches settled and runs on from
\* renderCards: updateNationalSummary(data), `await loadGeoJSON(data)` and, when that
\* await returns at once, state.allDiseaseData and renderSanitationCorrelation(data).
NationalDataReady(disease) ==
    /\ ui.natRuns[disease] > 0
    /\ ui' = [ui EXCEPT !.natRuns[disease] = @ - 1,
                        !.summaryShown = disease,
                        !.allDiseaseData = IF CacheHas(cache, BrazilGeoKey) THEN Diseases ELSE @,
                        !.scatterShown = IF CacheHas(cache, BrazilGeoKey) THEN disease ELSE @]
    /\ LoadGeoJSON(mp, disease, TRUE)
    /\ UNCHANGED <<tk, sc, nl, bk, ch, cd, muniLoads, cache, cs, ov, hist>>

\* The boundary fetch of the i-th suspended loadGeoJSON call settles.
GeoFetchSettles(i, ok) ==
    /\ i \in 1..Len(pendingGeo)
    /\ LET p == pendingGeo[i]
           s1 == IF ok THEN GeoLoaded(mp, p.data) ELSE GeoFailed(mp)
       IN  /\ mp' = IF p.tail THEN NationalTail(s1, ui) ELSE s1
           /\ ui' = IF p.tail
                    THEN [ui EXCEPT !.allDiseaseData = Diseases, !.scatterShown = p.data]
                    ELSE ui
    /\ pendingGeo' = [j \in 1..(Len(pendingGeo) - 1) |->
                         IF j < i THEN pendingGeo[j] ELSE pendingGeo[j + 1]]
    /\ cache' = IF ok THEN CacheSet(cache, BrazilGeoKey, "geojson") ELSE cache
    /\ UNCHANGED <<tk, sc, nl, bk, ch, cd, muniLoads, cs, ov, hist>>

\* ------------------------------------------------- main.js loadNationalData
\* What a finished fetchNationalOverview fetcher may return: the overview of this year,
\* or the one of last year after a fallback.
OverviewSamples ==
    { s \in SummarySeqs :
        /\ Len(s) = 1
        /\ s[1].latest = <<[notif_accum_year |-> <<2>>, Rt |-> Absent, nivel |-> 1]>> }

\* state.nationalData is empty and the loadNationalData('dengue') call of init() awaits
\* its fetcher.  loadedAtStart, read by the properties only, is the set of diseases that
\* had an entry in state.nationalData when the call began.
InitNationalLoads ==
    [nationalData |-> [d \in Diseases |-> Absent],
     calls |-> << [disease |-> "dengue", stage |-> "active", waiting |-> {"dengue"},
                   loadedAtStart |-> {}] >>,
     requests |-> [d \in Diseases |-> IF d = "dengue" THEN 1 ELSE 0]]

\* Variant of overviewMemoized that never finds the entry; C29 must not hold of it.
overviewMemoized_Never(c, disease) == FALSE

\* cachedFetch, `cache.has(key)` for the key of fetchNationalOverview(disease).
overviewMemoized(c, disease) == CacheHas(c, NationalKey(disease))

\* loadNationalData, the otherDiseases.map callbacks up to their await: a disease with
\* an entry in state.nationalData is skipped, a memoized one is stored at once, and for
\* the others a fetcher starts.
fetchOthers(n, c, call) ==
    LET others == Diseases \ {call.disease}
        started == { d \in others : n.nationalData[d] = Absent /\ ~overviewMemoized(c, d) }
    IN  [n |-> [n EXCEPT
                  !.nationalData = [d \in Diseases |->
                      IF d \in others /\ @[d] = Absent /\ overviewMemoized(c, d)
                      THEN <<c[NationalKey(d)]>> ELSE @[d]],
                  !.requests = [d \in Diseases |-> @[d] + IF d \in started THEN 1 ELSE 0]],
         call |-> [call EXCEPT !.stage = "others", !.waiting = started]]

\* loadNationalData from the return of `await fetchNationalOverview(disease)` on.
activeObtained(n, c, call, data) ==
    fetchOthers([n EXCEPT !.nationalData[call.disease] = <<data>>], c, call)

\* The part of a loadNationalData call from renderCards to the await of loadGeoJSON,
\* on map state s and UI state u.
NationalRest(s, u, disease) ==
    /\ ui' = [u EXCEPT !.summaryShown = disease,
                       !.allDiseaseData = IF CacheHas(cache, BrazilGeoKey) THEN Diseases ELSE @,
                       !.scatterShown = IF CacheHas(cache, BrazilGeoKey) THEN disease ELSE @]
    /\ LoadGeoJSON(s, disease, TRUE)

\* The card of `disease` is clicked: state.currentDisease, setMapDisease(disease) and
\* loadNationalData(disease) up to the first await that needs the network.
SwitchDisease(disease) ==
    /\ Len(nl.calls) + Len(pendingGeo) < MaxRuns
    /\ LET call == [disease |-> disease, stage |-> "active", waiting |-> {},
                    loadedAtStart |-> { d \in Diseases : nl.nationalData[d] # Absent }]
           s == setMapDiseaseState(mp, disease)
           u == [ui EXCEPT !.currentDisease = disease]
       IN  /\ IF overviewMemoized(cache, disease)
              THEN LET r == activeObtained(nl, cache, call, cache[NationalKey(disease)])
                   IN  IF r.call.waiting = {}
                       THEN nl' = r.n /\ NationalRest(s, u, disease)
                       ELSE /\ nl' = [r.n EXCEPT !.calls = Append(@, r.call)]
                            /\ mp' = s /\ ui' = u /\ pendingGeo' = pendingGeo
              ELSE /\ nl' = [nl EXCEPT !.requests[disease] = @ + 1,
                                       !.calls = Append(@, [call EXCEPT !.waiting = {disease}])]
                   /\ mp' = s /\ ui' = u /\ pendingGeo' = pendingGeo
           /\ hist' = [hist EXCEPT
                         !.suppressed = IF mp.zoom >= MUNICIPIO_ZOOM_THRESHOLD
                                        THEN @ \cup Suppressed(DropDiseaseLayers(mp, disease))
                                        ELSE @,
                         !.reusedFor = IF disease \in call.loadedAtStart
                                       THEN @ \cup {disease} ELSE @]
    /\ muniLoads' = setMapDiseaseLoads(mp, disease, muniLoads)
    /\ UNCHANGED <<tk, sc, bk, ch, cd, cache, cs, ov>>

\* The fetcher of fetchNationalOverview(d) awaited by the i-th running call returns
\* data: cachedFetch stores it and the call runs on to its next await on the network.
OverviewSettles(i, d, data) ==
    /\ i \in 1..Len(nl.calls)
    /\ d \in nl.calls[i].waiting
    /\ cache' = CacheSet(cache, NationalKey(d), data)
    /\ LET call == nl.calls[i]
           r == IF call.stage = "active"
                THEN activeObtained(nl, cache', call, data)
                ELSE [n |-> [nl EXCEPT !.nationalData[d] = <<data>>],
                      call |-> [call EXCEPT !.waiting = @ \ {d}]]
       IN  IF r.call.waiting = {}
           THEN /\ nl' = [r.n EXCEPT !.calls = RemoveAt(@, i)]
                /\ NationalRest(mp, ui, call.disease)
           ELSE /\ nl' = [r.n EXCEPT !.calls[i] = r.call]
                /\ UNCHANGED <<mp, ui, pendingGeo>>
    /\ UNCHANGED <<tk, sc, bk, ch, cd, muniLoads, cs, ov, hist>>

\* ------------------------------------------------ map.js sanitation colours
\* The percentages the colours are tried on, in tenths of a percent: 0.0 to 100.0.
PercentSamples == 0..1000

\* Variant of getSanitationColor with strict comparisons; C30 must not hold of it.
getSanitationColor_StrictEdges(percent) ==
    IF percent > 800 THEN "#06b6d4"
    ELSE IF percent > 600 THEN "#22d3ee"
    ELSE IF percent > 400 THEN "#67e8f9"
    ELSE IF percent > 200 THEN "#f59e0b"
    ELSE "#ef4444"

\* getSanitationColor(percent), percent in tenths.
getSanitationColor(percent) ==
    IF percent >= 800 THEN "#06b6d4"
    ELSE IF percent >= 600 THEN "#22d3ee"
    ELSE IF percent >= 400 THEN "#67e8f9"
    ELSE IF percent >= 200 THEN "#f59e0b"
    ELSE "#ef4444"

\* getTreatmentColor(percent), percent in tenths.
getTreatmentColor(percent) ==
    IF percent >= 700 THEN "#06b6d4"
    ELSE IF percent >= 550 THEN "#22d3ee"
    ELSE IF percent >= 400 THEN "#a3e635"
    ELSE IF percent >= 250 THEN "#f59e0b"
    ELSE "#ef4444"

\* getSanitationOpacity(percent), percent in tenths, the opacity in ten-thousandths:
\* 0.35 + (percent / 100) * 0.4.
getSanitationOpacity(percent) == 3500 + percent * 4

\* The fillOpacity of the style function on a sanitation layer: 0.15 for a state outside
\* the selected region, else getSanitationOpacity(val).
sanitationFillOpacity(percent, inRegion) ==
    IF ~inRegion THEN 1500 ELSE getSanitationOpacity(percent)

\* The rows updateLegend(layer) prints for a percentage legend, top to bottom: the
\* swatch colour and the text, which is `>= lo %`, `lo-hi %` or `< hi %` in whole
\* percents.  The legends of 'heatmap' and 'disease' print no percentage.
legendRows(layer) ==
    IF layer = "esgotoRelevo"
    THEN << [color |-> "#06b6d4", text |-> "atLeast", lo |-> 70, hi |-> 70],
            [color |-> "#22d3ee", text |-> "range",   lo |-> 55, hi |-> 69],
            [color |-> "#a3e635", text |-> "range",   lo |-> 40, hi |-> 54],
            [color |-> "#f59e0b", text |-> "range",   lo |-> 25, hi |-> 39],
            [color |-> "#ef4444", text |-> "below",   lo |-> 25, hi |-> 25] >>
    ELSE IF layer \in {"heatmap", "disease"}
    THEN <<>>
    ELSE << [color |-> "#06b6d4", text |-> "atLeast", lo |-> 80, hi |-> 80],
            [color |-> "#22d3ee", text |-> "range",   lo |-> 60, hi |-> 79],
            [color |-> "#67e8f9", text |-> "range",   lo |-> 40, hi |-> 59],
            [color |-> "#f59e0b", text |-> "range",   lo |-> 20, hi |-> 39],
            [color |-> "#ef4444", text |-> "below",   lo |-> 20, hi |-> 20] >>

\* A state (or relief circle) with the percentage `percent`, before a sanitation layer
\* was chosen: no sanitation fill, the legend of the disease layer.
InitColours(percent) ==
    [percent |-> percent, layer |-> "disease", fill |-> Null, legend |-> legendRows("disease"),
     inRegion |-> TRUE, opacity |-> 6000]

\* setMapLayer('coletaEsgoto' | 'tratamentoEsgoto'): updateLegend(layer), and the style
\* function of the state polygons fills with getSanitationColor(val) at the opacity
\* getSanitationOpacity(val); inRegion says whether the state is in the selected region.
SetSanitationLayer(layer, inRegion) ==
    /\ layer \in {"coletaEsgoto", "tratamentoEsgoto"}
    /\ sc' = [sc EXCEPT !.layer = layer, !.legend = legendRows(layer),
                        !.fill = getSanitationColor(sc.percent),
                        !.inRegion = inRegion,
                        !.opacity = sanitationFillOpacity(sc.percent, inRegion)]
    /\ UNCHANGED <<tk, nl, bk, ch, cd, mp, muniLoads, pendingGeo, ui, cache, cs, ov, hist>>

\* setMapEsgotoRelevo(): the circles are filled with getTreatmentColor, the state
\* polygons get the fillOpacity 0.55 and updateLegend('esgotoRelevo') prints the legend.
SetReliefLayer ==
    /\ sc' = [sc EXCEPT !.layer = "esgotoRelevo", !.legend = legendRows("esgotoRelevo"),
                        !.fill = getTreatmentColor(sc.percent),
                        !.opacity = 5500]
    /\ UNCHANGED <<tk, nl, bk, ch, cd, mp, muniLoads, pendingGeo, ui, cache, cs, ov, hist>>

\* ------------------------------------------------- main.js tracker loads
\* The reporting periods getPeriod() may return: the whole year, or its first half.
PeriodSamples ==
    { [ewStart |-> 1, ewEnd |-> e, eyStart |-> CurrentYear, eyEnd |-> CurrentYear] :
        e \in {26, 52} }

\* The key of fetchDiseaseData(geocode, disease, period...).
TrackerKey(geocode, disease, period) ==
    DiseaseDataKey(<<ToString(geocode), disease, ToString(period.ewStart),
                     ToString(period.ewEnd), ToString(period.eyStart), ToString(period.eyEnd)>>)

\* The series fetchDiseaseData resolves with, told apart by what it was fetched for.
SeriesFor(geocode, disease, period) ==
    [geocode |-> geocode, disease |-> disease, period |-> period]

\* The name the selector passes along with a geocode.
LocationName(geocode) == ToString(geocode)

\* No location, no series, the whole year selected, nothing awaited.
InitTrackerLoads ==
    [trackerLocations |-> <<>>,
     trackerDatasets |-> [n \in {} |-> Null],
     period |-> [ewStart |-> 1, ewEnd |-> 52, eyStart |-> CurrentYear, eyEnd |-> CurrentYear],
     fetches |-> <<>>]

\* The guard of addTrackerLocation: `state.trackerLocations.find(...)` finds an entry.
alreadyAdded(t, geocode) ==
    \E i \in 1..Len(t.trackerLocations) : t.trackerLocations[i].geocode = geocode

\* addTrackerLocation from the return of its await on, the fetch fulfilled with data.
locationAdded(t, geocode, name, data) ==
    [t EXCEPT !.trackerLocations = Append(@, [geocode |-> geocode, name |-> name, data |-> data]),
              !.trackerDatasets = CacheSet(@, name, data)]

\* reloadTrackerData() for `disease` up to its await: nothing without a location; else
\* the series are cleared and every location is fetched again, a memoized series being
\* stored at once.
reloadTrackerData(t, c, disease) ==
    IF t.trackerLocations = <<>> THEN t
    ELSE LET locs == t.trackerLocations
             key(i) == TrackerKey(locs[i].geocode, disease, t.period)
             hits == { i \in 1..Len(locs) : CacheHas(c, key(i)) }
             F[i \in 0..Len(locs)] ==
                 IF i = 0 THEN t.fetches
                 ELSE IF i \in hits THEN F[i - 1]
                 ELSE Append(F[i - 1], [kind |-> "reload", loc |-> i,
                                        geocode |-> locs[i].geocode, name |-> locs[i].name,
                                        disease |-> disease, period |-> t.period])
         IN  [t EXCEPT
                !.trackerLocations = [i \in 1..Len(locs) |->
                    IF i \in hits THEN [locs[i] EXCEPT !.data = c[key(i)]] ELSE locs[i]],
                !.trackerDatasets = [n \in { locs[i].name : i \in hits } |->
                    c[key(CHOOSE i \in hits : locs[i].name = n)]],
                !.fetches = F[Len(locs)]]

\* addTrackerLocation(geocode, name) is called: it returns when the geocode is listed,
\* else it awaits fetchDiseaseData for the current disease and period.
AddTrackerLocationCall(geocode) ==
    /\ ~alreadyAdded(tk, geocode)
    /\ LET key == TrackerKey(geocode, ui.currentDisease, tk.period)
       IN  IF CacheHas(cache, key)
           THEN tk' = locationAdded(tk, geocode, LocationName(geocode), cache[key])
           ELSE /\ Len(tk.fetches) < MaxFetches
                /\ tk' = [tk EXCEPT !.fetches = Append(@,
                             [kind |-> "add", loc |-> 0, geocode |-> geocode,
                              name |-> LocationName(geocode),
                              disease |-> ui.currentDisease, period |-> tk.period])]
    /\ UNCHANGED <<sc, nl, bk, ch, cd, mp, muniLoads, pendingGeo, ui, cache, cs, ov, hist>>

\* The i-th awaited fetchDiseaseData call settles: addTrackerLocation pushes the location
\* and its series, a reloadTrackerData task stores the series in its location and under
\* the location's name; a rejection is logged only.
TrackerFetchSettles(i, ok) ==
    /\ i \in 1..Len(tk.fetches)
    /\ LET f == tk.fetches[i]
           data == SeriesFor(f.geocode, f.disease, f.period)
           t == [tk EXCEPT !.fetches = RemoveAt(@, i)]
       IN  /\ cache' = IF ok THEN CacheSet(cache, TrackerKey(f.geocode, f.disease, f.period), data)
                       ELSE cache
           /\ tk' = IF ~ok THEN t
                    ELSE IF f.kind = "add" THEN locationAdded(t, f.geocode, f.name, data)
                    ELSE [t EXCEPT !.trackerLocations[f.loc].data = data,
                                   !.trackerDatasets = CacheSet(@, f.name, data)]
    /\ UNCHANGED <<sc, nl, bk, ch, cd, mp, muniLoads, pendingGeo, ui, cs, ov, hist>>

\* A pathogen tag is clicked: state.currentDisease and reloadTrackerData().
ChangePathogen(disease) ==
    /\ LET t == reloadTrackerData(tk, cache, disease)
       IN  Len(t.fetches) <= MaxFetches /\ tk' = t
    /\ ui' = [ui EXCEPT !.currentDisease = disease]
    /\ UNCHANGED <<sc, nl, bk, ch, cd, mp, muniLoads, pendingGeo, cache, cs, ov, hist>>

\* A period control changes: getPeriod() returns period from now on, and
\* reloadTrackerData().
ChangePeriod(period) ==
    /\ LET t == reloadTrackerData([tk EXCEPT !.period = period], cache, ui.currentDisease)
       IN  Len(t.fetches) <= MaxFetches /\ tk' = t
    /\ UNCHANGED <<sc, nl, bk, ch, cd, mp, muniLoads, pendingGeo, ui, cache, cs, ov, hist>>

\* ---------------------------------------------------------- specifications
\* The state after init() ran up to its first await: loadNationalData('dengue') runs.
InitApp ==
    /\ mp = InitMapState
    /\ muniLoads = [u \in UFs |-> <<>>]
    /\ pendingGeo = <<>>
    /\ ui = InitUi
    /\ cache = EmptyCache
    /\ cs = InitCalls
    /\ ov = InitOverview
    /\ cd = InitCardsState(<<>>)
    /\ ch = InitChartsState
    /\ bk = InitBulk
    /\ nl = InitNationalLoads
    /\ tk = InitTrackerLoads
    /\ sc = InitColours(0)
    /\ hist = InitHist

\* The dashboard as main.js wires it: the layer buttons, the disease cards, the
\* viewport events and the completions of the suspended loads.
NextMap ==
    \/ \E layer \in Layers : ClickLayerButton(layer)
    \/ \E z \in ZoomLevels, vp \in SUBSET UFs : MapMoveEnd(z, vp)
    \/ \E u \in UFs, ok \in BOOLEAN : MuniLoadSettles(u, ok)
    \/ \E d \in Diseases : ClickDiseaseCard(d)
    \/ \E d \in Diseases : NationalDataReady(d)
    \/ \E i \in 1..MaxRuns, ok \in BOOLEAN : GeoFetchSettles(i, ok)

SpecMap == InitApp /\ [][NextMap]_vars

\* map.js driven through setMapLayer alone for the layer switches; the heatmap data
\* of an earlier setMapHeatmap call may or may not be there.
InitApi ==
    /\ \E data \in {{}, Diseases} :
          mp = [InitMapState EXCEPT !.allDiseaseDataForHeatmap = data]
    /\ muniLoads = [u \in UFs |-> <<>>]
    /\ pendingGeo = <<>>
    /\ ui = InitUi
    /\ cache = EmptyCache
    /\ cs = InitCalls
    /\ ov = InitOverview
    /\ cd = InitCardsState(<<>>)
    /\ ch = InitChartsState
    /\ bk = InitBulk
    /\ nl = InitNationalLoads
    /\ tk = InitTrackerLoads
    /\ sc = InitColours(0)
    /\ hist = InitHist

NextApi ==
    \/ \E layer \in Layers : SetMapLayer(layer)
    \/ \E z \in ZoomLevels, vp \in SUBSET UFs : MapMoveEnd(z, vp)
    \/ \E u \in UFs, ok \in BOOLEAN : MuniLoadSettles(u, ok)
    \/ \E d \in Diseases : ClickDiseaseCard(d)
    \/ \E d \in Diseases : NationalDataReady(d)
    \/ \E i \in 1..MaxRuns, ok \in BOOLEAN : GeoFetchSettles(i, ok)

SpecApi == InitApi /\ [][NextApi]_vars

\* api.js alone: fetchDiseaseData calls and the answers to their requests.
NextCache ==
    \/ \E args \in ArgTuples : FetchDiseaseDataCall(args)
    \/ FetchBrazilGeoJSONCall
    \/ \E u \in UFs : FetchStateGeoJSONCall(u)
    \/ \E i \in 1..MaxCalls, raw \in RawResponses : FetchResponds(i, raw)
    \/ \E i \in 1..MaxCalls : FetchFails(i)

SpecCache == InitApp /\ [][NextCache]_vars

\* What the upstream may answer to a request of the attempt in progress.
AttemptResponses ==
    IF ov.pc = "fetching" THEN RawResponsesOf(CurrentAttempt(ov).year) ELSE {}

\* api.js alone: one fetchNationalOverview call and the answers to its requests.
NextOverview ==
    \/ \E d \in AllDiseases, day \in DaySamples : FetchNationalOverviewCall(d, day)
    \/ \E c \in 1..NumCapitals, raw \in AttemptResponses : CapitalResponds(c, raw)
    \/ \E c \in 1..NumCapitals : CapitalFails(c)

SpecOverview == InitApp /\ [][NextOverview]_vars

\* cards.js alone: an overview of up to MaxSummaries capitals, and calls of
\* updateNationalSummary and renderCards with it or with a prefix of it.
InitCards ==
    /\ mp = InitMapState
    /\ muniLoads = [u \in UFs |-> <<>>]
    /\ pendingGeo = <<>>
    /\ ui = InitUi
    /\ cache = EmptyCache
    /\ cs = InitCalls
    /\ ov = InitOverview
    /\ \E data \in SummarySeqs : cd = InitCardsState(data)
    /\ ch = InitChartsState
    /\ bk = InitBulk
    /\ nl = InitNationalLoads
    /\ tk = InitTrackerLoads
    /\ sc = InitColours(0)
    /\ hist = InitHist

NextCards ==
    \/ \E k \in 0..MaxSummaries : UpdateNationalSummary(k)
    \/ \E k \in 0..MaxSummaries : RenderCards(k)

SpecCards == InitCards /\ [][NextCards]_vars

\* What fetchDiseaseData may resolve with for a location being added.
TrackerResponses ==
    IF Len(ch.trackerDatasets) < MaxLocations THEN SeriesSamples ELSE {}

\* The tracker: locations are added to and removed from state.trackerDatasets and the
\* correlation chart is redrawn.
NextTracker ==
    \/ \E name \in NameSamples, data \in TrackerResponses : AddTrackerLocation(name, data)
    \/ \E i \in 1..MaxLocations : RemoveTrackerLocation(i)

SpecTracker == InitApp /\ [][NextTracker]_vars

\* The scatter chart alone: renderSanitationCorrelation called with overviews.
NextScatter ==
    \E capitalData \in ScatterSeqs : RenderSanitationCorrelation(capitalData)

SpecScatter == InitApp /\ [][NextScatter]_vars

\* api.js alone: one fetchBulkMunicipioAlerts call and the answers to its requests; the
\* series of the first sample geocode may have been memoized by an earlier call.
InitBulkSpec ==
    /\ mp = InitMapState
    /\ muniLoads = [u \in UFs |-> <<>>]
    /\ pendingGeo = <<>>
    /\ ui = InitUi
    /\ \E day \in DaySamples, s \in { SortBySE(r) : r \in RawResponses } :
          cache \in { EmptyCache,
                      CacheSet(EmptyCache, BulkKey(3550308, "dengue", currentEW(day)), s) }
    /\ cs = InitCalls
    /\ ov = InitOverview
    /\ cd = InitCardsState(<<>>)
    /\ ch = InitChartsState
    /\ bk = InitBulk
    /\ nl = InitNationalLoads
    /\ tk = InitTrackerLoads
    /\ sc = InitColours(0)
    /\ hist = InitHist

BulkResponses == IF bk.pc = "fetching" THEN RawResponses ELSE {}

NextBulk ==
    \/ \E geocodes \in GeocodeLists, d \in Diseases, day \in DaySamples :
          FetchBulkMunicipioAlertsCall(geocodes, d, day)
    \/ \E i \in 1..MaxGeocodes, raw \in BulkResponses : GeocodeResponds(i, raw)
    \/ \E i \in 1..MaxGeocodes : GeocodeFails(i)

SpecBulk == InitBulkSpec /\ [][NextBulk]_vars

\* What the fetchers awaited by the running calls may return.
OverviewResponses == IF nl.calls # <<>> THEN OverviewSamples ELSE {}

\* main.js, the disease cards and loadNationalData: the card clicks, the returns of the
\* overview fetchers and the completions of the boundary fetch.
NextNational ==
    \/ \E d \in Diseases : SwitchDisease(d)
    \/ \E i \in 1..MaxRuns, d \in Diseases, r \in OverviewResponses : OverviewSettles(i, d, r)
    \/ \E i \in 1..MaxRuns, ok \in BOOLEAN : GeoFetchSettles(i, ok)

SpecNational == InitApp /\ [][NextNational]_vars

\* map.js, the sanitation colours alone: one percentage and the layer switches that
\* colour it and print the legend.
InitColourSpec ==
    /\ mp = InitMapState
    /\ muniLoads = [u \in UFs |-> <<>>]
    /\ pendingGeo = <<>>
    /\ ui = InitUi
    /\ cache = EmptyCache
    /\ cs = InitCalls
    /\ ov = InitOverview
    /\ cd = InitCardsState(<<>>)
    /\ ch = InitChartsState
    /\ bk = InitBulk
    /\ nl = InitNationalLoads
    /\ tk = InitTrackerLoads
    /\ \E percent \in PercentSamples : sc = InitColours(percent)
    /\ hist = InitHist

NextColours ==
    \/ \E layer \in {"coletaEsgoto", "tratamentoEsgoto"}, r \in BOOLEAN : SetSanitationLayer(layer, r)
    \/ SetReliefLayer

SpecColours == InitColourSpec /\ [][NextColours]_vars

\* main.js, the tracker: locations being added, pathogen and period changes and the
\* completions of the fetches.
NextTrackerLoads ==
    \/ \E g \in GeocodeSamples : AddTrackerLocationCall(g)
    \/ \E i \in 1..MaxFetches, ok \in BOOLEAN : TrackerFetchSettles(i, ok)
    \/ \E d \in Diseases : ChangePathogen(d)
    \/ \E p \in PeriodSamples : ChangePeriod(p)

SpecTrackerLoads == InitApp /\ [][NextTrackerLoads]_vars

\* The dashboard once init() has finished: loadNationalData('dengue') has returned and
\* the choropleth is drawn from the memoized boundary document.
InitLoaded ==
    /\ mp = GeoLoaded(loadGeoJSONCall(InitMapState, "dengue"), "dengue")
    /\ muniLoads = [u \in UFs |-> <<>>]
    /\ pendingGeo = <<>>
    /\ ui = [InitUi EXCEPT !.natRuns = [d \in Diseases |-> 0], !.summaryShown = "dengue",
                           !.allDiseaseData = Diseases, !.scatterShown = "dengue"]
    /\ cache = CacheSet(EmptyCache, BrazilGeoKey, "geojson")
    /\ cs = InitCalls
    /\ ov = InitOverview
    /\ cd = InitCardsState(<<>>)
    /\ ch = InitChartsState
    /\ bk = InitBulk
    /\ nl = InitNationalLoads
    /\ tk = InitTrackerLoads
    /\ sc = InitColours(0)
    /\ hist = InitHist

\* The municipality loads on the disease layer: zoom and pan, the disease cards and the
\* completions of the loads.
NextMuni ==
    \/ \E z \in ZoomLevels, vp \in SUBSET UFs : MapMoveEnd(z, vp)
    \/ \E u \in UFs, ok \in BOOLEAN : MuniLoadSettles(u, ok)
    \/ \E d \in Diseases : ClickDiseaseCard(d)
    \/ \E d \in Diseases : NationalDataReady(d)

\* Both fetches of every running load settle in the end, whatever the loads of the
\* other states do: the browser answers or fails every request, and
\* fetchBulkMunicipioAlerts settles once its requests have.
SpecMuni ==
    /\ InitLoaded
    /\ [][NextMuni]_vars
    /\ \A u \in UFs : WF_vars(\E ok \in BOOLEAN : MuniLoadSettles(u, ok))

\* ------------------------------------------------------------------ claims
\* C1: whatever the order of the layer-button clicks, the heatmap overlay and the
\* sewage-relief marker group are never on the map together.
C1_HeatAndReliefExclusive ==
    ~(mp.heatOnMap > 0 /\ mp.reliefOnMap > 0)

\* C2: under setMapLayer calls, once no loadGeoJSON continuation is pending, the
\* heatmap overlay is on the map only in layer 'heatmap' and the relief group only in
\* layer 'esgotoRelevo'; after setMapLayer('heatmap'), ('esgotoRelevo'), ('disease')
\* neither is on the map.
C2_ArtifactsFollowLayer ==
    pendingGeo = <<>> =>
        /\ mp.heatOnMap > 0 => mp.currentMapLayer = "heatmap"
        /\ mp.reliefOnMap > 0 => mp.currentMapLayer = "esgotoRelevo"
        /\ hist.seqPos = 3 => mp.heatOnMap = 0 /\ mp.reliefOnMap = 0

\* The three-call sequence has run with heatmap data present and a choropleth drawn.
C2_Witness ==
    /\ hist.seqPos = 3
    /\ pendingGeo = <<>>
    /\ mp.allDiseaseDataForHeatmap # {}
    /\ mp.geoLayer # NoLayer
    /\ mp.heatOnMap = 0 /\ mp.reliefOnMap = 0

\* C3: a municipality-detail layer is on the map only while the active layer is
\* 'disease' and the zoom is at or above the municipality threshold.
C3_MuniOnlyInDiseaseZoomedIn ==
    \A u \in UFs :
        mp.muniOnMap[u] > 0 =>
            mp.currentMapLayer = "disease" /\ mp.zoom >= MUNICIPIO_ZOOM_THRESHOLD

\* C4: per state id at most one loadMunicipioLayer load is in flight, and none is in
\* flight for a state whose municipality layer is loaded.
C4_OneLoadPerState ==
    \A u \in UFs :
        /\ Len(muniLoads[u]) <= 1
        /\ muniLoads[u] # <<>> => mp.loadedMunicipioLayers[u] = Null

\* A load is outstanding and a later settle event asked for the same state again.
C4_Witness ==
    \E u \in UFs : muniLoads[u] # <<>> /\ u \in hist.suppressed

\* C5: when setMapDisease returns, no state keeps an entry in loadedMunicipioLayers
\* or in municipioAlertCache.
C5_SwitchClearsLayersAndAlerts ==
    [][ (\E d \in Diseases : ClickDiseaseCard(d)) =>
            \A u \in UFs :
                /\ mp'.loadedMunicipioLayers[u] = Null
                /\ mp'.municipioAlertCache[u] = Null ]_vars

\* C6: setMapDisease(d) at or above the threshold in layer 'disease' leaves, for every
\* visible state, a municipality load for d in flight.
C6_SwitchStartsLoadsForNewDisease ==
    [][ \A d \in Diseases :
            (ClickDiseaseCard(d)
                /\ mp.zoom >= MUNICIPIO_ZOOM_THRESHOLD
                /\ mp.currentMapLayer = "disease") =>
            \A u \in getVisibleUFs(mp) \cap MAJOR_CITIES_BY_UF :
                \E i \in 1..Len(muniLoads'[u]) : muniLoads'[u][i] = d ]_vars

\* C7: for no cache key are two fetcher invocations of cachedFetch outstanding at once.
C7_OneRequestPerKey ==
    \A i, j \in 1..Len(cs.inflight) :
        cs.inflight[i].key = cs.inflight[j].key => i = j

\* C8: once no loadNationalData run and no loadGeoJSON call is outstanding, the state
\* choropleth data, the national summary and the scatter chart are those of the
\* disease selected last.
C8_LastSwitchWins ==
    RunCount = 0 =>
        /\ mp.lastCapitalData = ui.currentDisease
        /\ ui.summaryShown = ui.currentDisease
        /\ ui.scatterShown = ui.currentDisease

\* The capitals whose request in attempt a was answered with a non-empty series.
Served(a) == { c \in 1..Len(capitals) : a.outcome[c].ok /\ a.outcome[c].raw # <<>> }

\* C9: the attempts are for currentYear (weeks max(1, currentEW - 4) to currentEW),
\* then currentYear - 1, - 2, - 3 (weeks 1 to 52), at most four; every attempt before
\* the last one gave no capital a point; the fetcher returns only after an attempt that
\* gave some capital a point or after the fourth; and when the first attempt to give a
\* point is the third, the returned summaries all have dataYear = currentYear - 2.
C9_FallbackYears ==
    LET n == Len(ov.tried)
    IN  /\ n <= 4
        /\ ov.pc # "idle" => n >= 1
        /\ \A k \in 1..n :
              /\ ov.tried[k].year = CurrentYear - (k - 1)
              /\ <<ov.tried[k].ewStart, ov.tried[k].ewEnd>> =
                     IF k = 1
                     THEN <<IF ov.currentEW - 4 > 1 THEN ov.currentEW - 4 ELSE 1, ov.currentEW>>
                     ELSE <<1, 52>>
              /\ k < n => Served(ov.tried[k]) = {}
        /\ ov.pc = "done" =>
              /\ Served(ov.tried[n]) # {} \/ n = 4
              /\ (n >= 3 /\ Served(ov.tried[3]) # {}) =>
                    /\ n = 3
                    /\ ov.result # <<>>
                    /\ \A i \in 1..Len(ov.result) : ov.result[i].dataYear = CurrentYear - 2

\* No data in currentYear and currentYear - 1, data in currentYear - 2: three attempts.
C9_Witness ==
    /\ ov.pc = "done"
    /\ Len(ov.tried) = 3
    /\ Served(ov.tried[1]) = {} /\ Served(ov.tried[2]) = {} /\ Served(ov.tried[3]) # {}
    /\ \A i \in 1..Len(ov.result) : ov.result[i].dataYear = CurrentYear - 2

\* C10: the fetcher of fetchNationalOverview ends by returning, whatever capitals
\* failed: the result has one summary per capital, in the order of the capitals; a
\* capital whose fetch failed has data = [] and latest = null, and any other capital has
\* its own sorted series and that series' last point, whatever happened to the others.
C10_OneSummaryPerCapital ==
    /\ ov.pc \in {"idle", "fetching", "done"}
    /\ ov.pc = "done" =>
          LET a == ov.tried[Len(ov.tried)]
          IN  /\ Len(ov.result) = Len(capitals)
              /\ \A c \in 1..Len(capitals) :
                    LET r   == ov.result[c]
                        raw == a.outcome[c].raw
                    IN  /\ r.geocode = capitals[c].geocode
                        /\ r.dataYear = a.year
                        /\ IF a.outcome[c].ok
                           THEN /\ Len(r.data) = Len(raw)
                                /\ \A p \in SampleYearSE(a.year) :
                                      Cardinality({ i \in 1..Len(raw) : raw[i] = p }) =
                                      Cardinality({ i \in 1..Len(r.data) : r.data[i] = p })
                                /\ \A i \in 1..(Len(r.data) - 1) : r.data[i] <= r.data[i + 1]
                                /\ r.latest = IF raw = <<>> THEN <<>> ELSE <<r.data[Len(r.data)]>>
                           ELSE r.data = <<>> /\ r.latest = <<>>

\* An attempt in which one capital failed and another was served ended the call.
C10_Witness ==
    /\ ov.pc = "done"
    /\ Len(ov.result) = Len(capitals)
    /\ \E c, d \in 1..Len(capitals) :
          /\ ~ov.tried[Len(ov.tried)].outcome[c].ok
          /\ ov.result[c].data = <<>> /\ ov.result[c].latest = <<>>
          /\ d \in Served(ov.tried[Len(ov.tried)])
          /\ ov.result[d].latest # <<>>

\* C11: every summary of a fetchNationalOverview result has the year of the last
\* attempt as dataYear, and a summary with a series got it from the request of its
\* capital with ey_start = ey_end = dataYear in that attempt, its points being of that
\* year.
C11_DataYearIsYearUsed ==
    ov.pc = "done" =>
        LET a == ov.tried[Len(ov.tried)]
        IN  \A i \in 1..Len(ov.result) :
                LET r   == ov.result[i]
                    key == DiseaseDataKey(<<ToString(r.geocode), ov.disease,
                                            ToString(a.ewStart), ToString(a.ewEnd),
                                            ToString(r.dataYear), ToString(r.dataYear)>>)
                IN  /\ r.dataYear = a.year
                    /\ r.data # <<>> =>
                          /\ CacheHas(cache, key)
                          /\ cache[key] = r.data
                          /\ \A j \in 1..Len(r.data) : r.data[j] \div 100 = r.dataYear
                    /\ r.latest # <<>> => r.latest[1] \div 100 = r.dataYear

\* The call returned the data of a fallback year after abandoning an attempt in
\* which a request failed and another was answered with an empty series.
C11_Witness ==
    /\ ov.pc = "done"
    /\ Len(ov.tried) >= 2
    /\ \E i \in 1..Len(ov.result) :
          /\ ov.result[i].data # <<>>
          /\ ov.result[i].dataYear = CurrentYear - (Len(ov.tried) - 1)
    /\ \E c, d \in 1..Len(capitals) :
          ov.tried[1].outcome[c].ok /\ ~ov.tried[1].outcome[d].ok

\* C12: a fetchDiseaseData call with a tuple that has resolved returns the entry
\* stored for that tuple and issues no request; a call with a tuple that has not
\* resolved issues its own request even if tuples differing from it in one component
\* are stored; and the answer to a request changes the entry of no other tuple.
C12_CachedByFullTuple ==
    [][ /\ \A args \in ArgTuples :
              FetchDiseaseDataCall(args) =>
                  IF DiseaseRequest(args) \in cs.resolved
                  THEN /\ cs'.inflight = cs.inflight
                       /\ cs'.returned = <<DiseaseDataKey(args)>>
                       /\ CacheHas(cache, DiseaseDataKey(args))
                  ELSE /\ cs'.returned = <<>>
                       /\ cs'.inflight =
                             Append(cs.inflight, [key |-> DiseaseDataKey(args),
                                                  req |-> DiseaseRequest(args)])
        /\ \A i \in 1..Len(cs.inflight) :
              (\E raw \in RawResponses : FetchResponds(i, raw)) =>
                  \A b \in ArgTuples :
                      DiseaseRequest(b) # cs.inflight[i].req =>
                          /\ CacheHas(cache', DiseaseDataKey(b)) = CacheHas(cache, DiseaseDataKey(b))
                          /\ CacheHas(cache, DiseaseDataKey(b)) =>
                                cache'[DiseaseDataKey(b)] = cache[DiseaseDataKey(b)] ]_vars

\* A call was served from the cache while a tuple differing in one component is
\* stored with another value.
C12_Witness ==
    \E a, b \in ArgTuples :
        /\ a # b
        /\ {DiseaseRequest(a), DiseaseRequest(b)} \subseteq cs.resolved
        /\ cs.returned = <<DiseaseDataKey(a)>>
        /\ cache[DiseaseDataKey(a)] # cache[DiseaseDataKey(b)]

\* C13: a failing request of fetchDiseaseData, fetchBrazilGeoJSON or fetchStateGeoJSON
\* rejects its call and leaves the cache as it was, and a later call whose key is not
\* stored issues a new request, whether or not a request with that key failed before.
C13_FailureNotMemoized ==
    [][ /\ \A i \in 1..Len(cs.inflight) :
              FetchFails(i) => cache' = cache /\ cs'.rejections = cs.rejections + 1
        /\ \A req \in Requests :
              (CachedCall(req) /\ req \in cs.failed /\ req \notin cs.resolved) =>
                  cs'.inflight = Append(cs.inflight, [key |-> KeyOf(req), req |-> req]) ]_vars

\* After a failure of each kind of request, a request whose earlier attempt failed is
\* outstanding again.
C13_Witness ==
    /\ \E r \in cs.failed : r.kind = "disease"
    /\ \E r \in cs.failed : r.kind # "disease"
    /\ \E i \in 1..Len(cs.inflight) :
          cs.inflight[i].req \in cs.failed /\ ~CacheHas(cache, cs.inflight[i].key)

\* The greatest SE of a non-empty series.
MaxSE(raw) == CHOOSE p \in { raw[i] : i \in 1..Len(raw) } : \A i \in 1..Len(raw) : raw[i] <= p

\* C14: whatever the order of the upstream response, the series fetchDiseaseData
\* returns and stores is the response in ascending order of SE, and latest in a
\* fetchNationalOverview summary is the point of greatest SE of the response, or null
\* when the response is empty.
C14_SeriesAscendingLatestIsMax ==
    /\ \A k \in 1..Len(ov.tried) : \A c \in 1..Len(capitals) :
          LET a   == ov.tried[k]
              raw == a.outcome[c].raw
              key == DiseaseDataKey(<<ToString(capitals[c].geocode), ov.disease,
                                      ToString(a.ewStart), ToString(a.ewEnd),
                                      ToString(a.year), ToString(a.year)>>)
          IN  a.outcome[c].ok =>
                /\ CacheHas(cache, key)
                /\ Len(cache[key]) = Len(raw)
                /\ \A i \in 1..(Len(raw) - 1) : cache[key][i] <= cache[key][i + 1]
                /\ \A p \in SampleYearSE(a.year) :
                      Cardinality({ i \in 1..Len(raw) : raw[i] = p }) =
                      Cardinality({ i \in 1..Len(raw) : cache[key][i] = p })
    /\ ov.pc = "done" =>
          \A c \in 1..Len(ov.result) :
              LET o == ov.tried[Len(ov.tried)].outcome[c]
              IN  o.ok => ov.result[c].latest =
                              IF o.raw = <<>> THEN <<>> ELSE <<MaxSE(o.raw)>>

\* A response that came in descending order gave its first point as latest.
C14_Witness ==
    /\ ov.pc = "done"
    /\ \E c \in 1..Len(ov.result) :
          LET o == ov.tried[Len(ov.tried)].outcome[c]
          IN  /\ o.ok /\ Len(o.raw) = 2 /\ o.raw[1] > o.raw[2]
              /\ ov.result[c].latest = <<o.raw[1]>>
              /\ ov.result[c].data = <<o.raw[2], o.raw[1]>>

\* C15: when a zoom-or-pan settle event has been handled with the zoom below the
\* threshold, no municipality-detail layer is on the map, loadedMunicipioLayers is
\* empty and the state choropleth, if drawn, has the undimmed style of the active layer.
C15_ZoomOutClearsMunicipalities ==
    [][ \A z \in ZoomLevels, vp \in SUBSET UFs :
            (MapMoveEnd(z, vp) /\ z < MUNICIPIO_ZOOM_THRESHOLD) =>
                /\ \A u \in UFs :
                      mp'.muniOnMap[u] = 0 /\ mp'.loadedMunicipioLayers[u] = Null
                /\ mp'.geoLayer # NoLayer =>
                      mp'.geoLayer.style = mp'.currentMapLayer ]_vars

\* The last settle event found a municipality layer on the map below the threshold
\* and the map now shows none, the choropleth being undimmed.
C15_Witness ==
    /\ hist.zoomOutCleared
    /\ mp.zoom < MUNICIPIO_ZOOM_THRESHOLD
    /\ mp.geoLayer # NoLayer /\ mp.geoLayer.style = mp.currentMapLayer
    /\ \A u \in UFs : mp.muniOnMap[u] = 0 /\ mp.loadedMunicipioLayers[u] = Null
    /\ \E u \in UFs : mp.municipioAlertCache[u] # Null

\* C16: right after setMapLayer(layer), for each of the five layers, no
\* municipality-detail layer is on the map and loadedMunicipioLayers is empty.
C16_SetMapLayerClearsMunicipalities ==
    [][ (\E layer \in Layers : SetMapLayer(layer)) =>
            \A u \in UFs :
                mp'.muniOnMap[u] = 0 /\ mp'.loadedMunicipioLayers[u] = Null ]_vars

\* setMapLayer('disease') was called zoomed in with a municipality layer on the map,
\* and none is there now.
C16_Witness ==
    /\ hist.layerCleared
    /\ mp.currentMapLayer = "disease"
    /\ mp.zoom >= MUNICIPIO_ZOOM_THRESHOLD
    /\ \A u \in UFs : mp.muniOnMap[u] = 0 /\ mp.loadedMunicipioLayers[u] = Null
    /\ \E u \in UFs : mp.municipioAlertCache[u] # Null

\* C17: after setMapLayer(newLayer), for each of the five layers, the legend shown is
\* the legend of newLayer.
C17_LegendFollowsSetMapLayer ==
    [][ \A layer \in Layers : SetMapLayer(layer) => mp'.legend = layer ]_vars

\* The sum of latest.notif_accum_year over the summaries of data that have a latest,
\* a missing value counting as 0, taken over the set of positions.
SumCases(data) ==
    LET val(i) == IF data[i].latest = <<>> THEN 0
                  ELSE IF data[i].latest[1].notif_accum_year = <<>> THEN 0
                  ELSE data[i].latest[1].notif_accum_year[1]
        S[I \in SUBSET (1..Len(data))] ==
            IF I = {} THEN 0
            ELSE LET i == CHOOSE x \in I : TRUE IN val(i) + S[I \ {i}]
    IN  S[1..Len(data)]

\* The rearrangements of a sequence.
Rearrangements(data) ==
    { [i \in 1..Len(data) |-> data[p[i]]] :
        p \in { q \in [1..Len(data) -> 1..Len(data)] :
                    \A i, j \in 1..Len(data) : q[i] = q[j] => i = j } }

\* C18: the total cases renderCards and updateNationalSummary compute and show for a
\* sequence of summaries is the sum of latest.notif_accum_year over the summaries with
\* a latest, a missing value counting as 0, and every rearrangement of the sequence
\* gives the same total.
C18_TotalCasesIsOrderFreeSum ==
    /\ cd.cardCalls > 0 =>
          /\ cd.cardShown.totalCases = SumCases(cd.cardArg)
          /\ \A r \in Rearrangements(cd.cardArg) :
                cardShows(cardAggregate(<<r>>)).totalCases = cd.cardShown.totalCases
    /\ (cd.summaryCalls > 0 /\ cd.summaryArg # <<>>) =>
          /\ cd.summaryShown.totalCases = SumCases(cd.summaryArg)
          /\ \A r \in Rearrangements(cd.summaryArg) :
                updateNationalSummary(ZeroSummary, r).totalCases = cd.summaryShown.totalCases

\* Both functions were given two summaries with different case counts next to each
\* other and show their sum.
C18_Witness ==
    /\ cd.cardCalls > 0 /\ cd.summaryCalls > 0
    /\ cd.cardArg = cd.summaryArg
    /\ Len(cd.cardArg) = 2
    /\ cd.cardArg[1].latest # <<>> /\ cd.cardArg[2].latest # <<>>
    /\ cd.cardArg[1].latest[1].notif_accum_year = <<2>>
    /\ cd.cardArg[2].latest[1].notif_accum_year = <<5>>
    /\ cd.cardShown.totalCases = 7 /\ cd.summaryShown.totalCases = 7

\* The mean of latest.Rt over the summaries whose latest.Rt is present, shown with
\* two decimals (in hundredths), 0 when none is present.
MeanRtOfPresent(data) ==
    LET P == { i \in 1..Len(data) :
                 data[i].latest # <<>> /\ data[i].latest[1].Rt # <<>> }
        S[I \in SUBSET P] ==
            IF I = {} THEN 0
            ELSE LET i == CHOOSE x \in I : TRUE IN data[i].latest[1].Rt[1] + S[I \ {i}]
    IN  IF P = {} THEN 0 ELSE (200 * S[P] + Cardinality(P)) \div (2 * Cardinality(P))

\* C19: the mean reproduction number shown is the sum of latest.Rt divided by the
\* number of summaries whose latest.Rt is present, a present Rt of 0 counting in the
\* divisor, and 0 when no summary has an Rt.
C19_MeanRtOverPresentValues ==
    /\ cd.cardCalls > 0 => cd.cardShown.avgRt = MeanRtOfPresent(cd.cardArg)
    /\ (cd.summaryCalls > 0 /\ cd.summaryArg # <<>>) =>
          cd.summaryShown.avgRt = MeanRtOfPresent(cd.summaryArg)

\* C20: after a call with an empty sequence or one whose entries all have latest =
\* null, the card shows total 0, mean Rt 0 and level 1, and the summary shows total 0,
\* alert-city count 0 and mean Rt 0, whatever was shown before.
C20_EmptyAggregationShowsZeros ==
    /\ (cd.cardCalls > 0 /\ \A i \in 1..Len(cd.cardArg) : cd.cardArg[i].latest = <<>>) =>
          cd.cardShown = [totalCases |-> 0, avgRt |-> 0, maxLevel |-> 1]
    /\ (cd.summaryCalls > 0
            /\ \A i \in 1..Len(cd.summaryArg) : cd.summaryArg[i].latest = <<>>) =>
          cd.summaryShown = [totalCases |-> 0, alertCities |-> 0, avgRt |-> 0]

\* The number of summaries of data whose latest.nivel is 3 or 4.
AlertCityCount(data) ==
    Cardinality({ i \in 1..Len(data) :
                    data[i].latest # <<>> /\ data[i].latest[1].nivel \in {3, 4} })

\* The highest latest.nivel over the summaries of data with a latest, 1 without one.
MaxAlertLevel(data) ==
    LET L == { data[i].latest[1].nivel : i \in { j \in 1..Len(data) : data[j].latest # <<>> } }
    IN  IF L = {} THEN 1 ELSE CHOOSE m \in L : \A x \in L : x <= m

\* C21: the alert-city count updateNationalSummary shows for a sequence of summaries is
\* the number of summaries whose latest.nivel is 3 or 4, and the level of the badge
\* renderCards shows is the highest latest.nivel over the summaries with a latest, or 1
\* when there is none; the level is never 0.
C21_AlertCountAndMaxLevel ==
    /\ (cd.summaryCalls > 0 /\ cd.summaryArg # <<>>) =>
          cd.summaryShown.alertCities = AlertCityCount(cd.summaryArg)
    /\ cd.cardCalls > 0 =>
          /\ cd.cardShown.maxLevel = MaxAlertLevel(cd.cardArg)
          /\ cd.cardShown.maxLevel # 0

\* Both functions were given a level-3 and a level-4 capital: the summary counts two
\* alert cities and the badge is at level 4.
C21_Witness ==
    /\ cd.cardCalls > 0 /\ cd.summaryCalls > 0
    /\ cd.cardArg = cd.summaryArg
    /\ Len(cd.cardArg) = 2
    /\ cd.cardArg[1].latest # <<>> /\ cd.cardArg[2].latest # <<>>
    /\ cd.cardArg[1].latest[1].nivel = 4
    /\ cd.cardArg[2].latest[1].nivel = 3
    /\ cd.summaryShown.alertCities = 2 /\ cd.cardShown.maxLevel = 4

\* The weeks of each month in the table of the specification, month m at position m + 1.
MonthWeeks ==
    << 1..4, 5..9, 10..13, 14..17, 18..22, 23..26, 27..30, 31..35, 36..39, 40..43,
       44..48, 49..52 >>

MonthOfTable(week) == CHOOSE m \in 0..11 : week \in MonthWeeks[m + 1]

\* C22: weekToMonth maps every week 1..52 to the month of the fixed table; week 4
\* gives month 0, week 5 month 1, week 52 month 11, and the result is an index in 0..11.
C22_WeekToMonthTable ==
    \A i \in 1..Len(ch.months) :
        LET week == ch.months[i][1]
            m    == ch.months[i][2]
        IN  week \in 1..WeeksPerYear =>
              /\ m = MonthOfTable(week)
              /\ m \in 0..11
              /\ (week = 4 => m = 0) /\ (week = 5 => m = 1) /\ (week = 52 => m = 11)

\* A series with points at weeks 4 and 52 was added: months 0 and 11.
C22_Witness ==
    /\ Len(ch.months) = 2
    /\ ch.months[1] = <<4, 0>>
    /\ ch.months[2] = <<52, 11>>

\* The sum of data[i][field] over the positions of I, all of which carry the field.
SumField(data, I, field) ==
    LET S[J \in SUBSET I] ==
            IF J = {} THEN 0
            ELSE LET i == CHOOSE x \in J : TRUE IN data[i][field][1] + S[J \ {i}]
    IN  S[I]

\* The datasets of the chart that belong to the location `name`.
DatasetsOf(name) ==
    IF ch.mainChart = <<>> THEN <<>>
    ELSE LET all == ch.mainChart[1]
             F[i \in 0..Len(all)] ==
                 IF i = 0 THEN <<>>
                 ELSE IF all[i].location = name THEN Append(F[i - 1], all[i]) ELSE F[i - 1]
         IN  F[Len(all)]

\* A plotted value v is null when no point of P carries the field, else the mean of the
\* field over the points of P that carry it.
IsMeanOver(v, data, P, field) ==
    LET Q == { i \in P : data[i][field] # <<>> }
    IN  IF Q = {} THEN v = <<>>
        ELSE /\ Len(v) = 2 /\ v[2] > 0
             /\ v[1] * Cardinality(Q) = SumField(data, Q, field) * v[2]

\* C23: for every series, monthly bucket m has cases equal to the sum of casos (missing
\* counted as 0) of the points whose week (SE mod 100) maps to month m, temperature and
\* humidity equal to the mean over that month's points with a value, and null, never 0,
\* for a climate field without a contributing point; a single point at week 1 gives its
\* cases at index 0 and cases 0 with null temperature and humidity in the other months.
C23_MonthlyBuckets ==
    \A e \in 1..Len(ch.trackerDatasets) :
        LET name == ch.trackerDatasets[e].name
            data == ch.trackerDatasets[e].data
            ds   == DatasetsOf(name)
        IN  Len(data) > 0 =>
              /\ Len(ds) >= 3
              /\ ds[1].kind = "Casos" /\ ds[2].kind = "Umidade Média (%)"
              /\ ds[3].kind = "Temp. Média (°C)"
              /\ \A m \in 0..11 :
                    LET P == { i \in 1..Len(data) : MonthOfTable(data[i].SE % 100) = m }
                    IN  /\ ds[1].data[m + 1] =
                              <<SumField(data, { i \in P : data[i].casos # <<>> }, "casos")>>
                        /\ IsMeanOver(ds[2].data[m + 1], data, P, "umidmed")
                        /\ IsMeanOver(ds[3].data[m + 1], data, P, "tempmed")
                        /\ (P = {} => /\ ds[1].data[m + 1] = <<0>>
                                      /\ ds[2].data[m + 1] = <<>>
                                      /\ ds[3].data[m + 1] = <<>>)

\* A series with a single point at week 1 (3 cases, 20 degrees) was added: the cases and
\* the temperature are at index 0 and the other eleven months show 0 cases and nulls.
C23_Witness ==
    /\ Len(ch.trackerDatasets) = 1
    /\ Len(ch.trackerDatasets[1].data) = 1
    /\ ch.trackerDatasets[1].data[1].SE % 100 = 1
    /\ ch.trackerDatasets[1].data[1].casos = <<3>>
    /\ ch.mainChart # <<>>
    /\ ch.mainChart[1][1].data[1] = <<3>>
    /\ ch.mainChart[1][3].data[1] = <<20, 1>>
    /\ \A m \in 2..12 :
          /\ ch.mainChart[1][1].data[m] = <<0>>
          /\ ch.mainChart[1][2].data[m] = <<>>
          /\ ch.mainChart[1][3].data[m] = <<>>

\* The positions of capitalData with a latest and a state of the sanitation table.
ScatterEligible(capitalData) ==
    { i \in 1..Len(capitalData) :
        capitalData[i].latest # <<>> /\ capitalData[i].uf \in DOMAIN getSanitationData }

\* C24: the scatter series renderSanitationCorrelation builds has exactly one point per
\* capital summary with both a non-null latest and a uf of the sanitation table, with
\* x that state's coletaEsgoto; a summary lacking either (uf 'ZZ') gives no point, and
\* no point has a null x.
C24_ScatterOnePointPerResolved ==
    (ch.scatterCalls > 0 /\ ch.scatter # <<>>) =>
        LET pts == ch.scatter[1]
            E   == ScatterEligible(ch.scatterArg)
        IN  /\ Len(pts) = Cardinality(E)
            /\ { pts[k].index : k \in 1..Len(pts) } = E
            /\ \A k \in 1..Len(pts) :
                  /\ pts[k].x # <<>>
                  /\ pts[k].uf = ch.scatterArg[pts[k].index].uf
                  /\ pts[k].x = <<getSanitationData[pts[k].uf].coletaEsgoto>>

\* The overview had a capital of SP and one of the unknown state ZZ, both with a
\* latest: the series has the one point of SP.
C24_Witness ==
    /\ ch.scatterCalls > 0
    /\ Len(ch.scatterArg) = 2
    /\ ch.scatterArg[1].uf = "SP" /\ ch.scatterArg[1].latest # <<>>
    /\ ch.scatterArg[2].uf = "ZZ" /\ ch.scatterArg[2].latest # <<>>
    /\ ch.scatter # <<>>
    /\ Len(ch.scatter[1]) = 1
    /\ ch.scatter[1][1].x = <<896>>

\* The pieces of a name that are not blanks.
NoBlanks(s) ==
    LET F[i \in 0..Len(s)] ==
            IF i = 0 THEN <<>>
            ELSE IF s[i] = " " THEN F[i - 1] ELSE Append(F[i - 1], s[i])
    IN  F[Len(s)]

\* The states uf of the table for which name has the form '<city> - <uf>'.
StateOfName(name) ==
    { uf \in DOMAIN getSanitationData :
        \E k \in 1..Len(name) :
            /\ name[k] = " - "
            /\ \A j \in 1..Len(name) : name[j] = " - " => j = k
            /\ NoBlanks(SubSeq(name, k + 1, Len(name))) = <<uf>> }

C26_BulkAlertsTolerateFailures ==
    /\ bk.pc \in {"idle", "fetching", "fulfilled"}
    /\ (bk.pc = "fetching" => bk.pending # {})
    /\ bk.pc = "fulfilled" =>
          LET ok == { i \in 1..Len(bk.geocodes) :
                        bk.outcome[i].ok /\ Len(bk.outcome[i].data) > 0 }
          IN  /\ DOMAIN bk.alertMap = { bk.geocodes[i] : i \in ok }
              /\ \A i \in ok :
                    LET data == bk.outcome[i].data
                    IN  /\ bk.alertMap[bk.geocodes[i]] = data[Len(data)]
                        /\ bk.alertMap[bk.geocodes[i]] = MaxSE(data)
                        /\ bk.raw[i] # <<>> => bk.alertMap[bk.geocodes[i]] = MaxSE(bk.raw[i])

\* Two geocodes were asked for: the fetch of the first failed, the second answered with
\* two weeks out of order, and the call fulfilled with the later week under the second
\* geocode only.
C26_Witness ==
    /\ bk.pc = "fulfilled"
    /\ Len(bk.geocodes) = 2
    /\ ~bk.outcome[1].ok
    /\ bk.outcome[2].ok /\ Len(bk.raw[2]) = 2 /\ bk.raw[2][1] > bk.raw[2][2]
    /\ DOMAIN bk.alertMap = {bk.geocodes[2]}
    /\ bk.alertMap[bk.geocodes[2]] = bk.raw[2][1]

\* C27: when the country boundary fetch fails, loadGeoJSON does not throw to its caller
\* (loadNationalData goes on after its await), shows a visible error message in the map
\* region, and leaves the state choropleth layer, the heatmap overlay and the relief
\* group as they were (compared where no caller runs on after the failed call).
C27_BoundaryFailureShown ==
    [][ \A i \in 1..MaxRuns :
          GeoFetchSettles(i, FALSE) =>
            /\ mp'.mapError /\ ~mp'.loadingHidden
            /\ mp'.geoOnMap = mp.geoOnMap
            /\ pendingGeo[i].tail => ui'.allDiseaseData = Diseases
            /\ ~pendingGeo[i].tail =>
                  /\ mp'.geoLayer = mp.geoLayer
                  /\ mp'.heatmapSvgOverlay = mp.heatmapSvgOverlay
                  /\ mp'.heatOnMap = mp.heatOnMap
                  /\ mp'.esgotoRelevoLayer = mp.esgotoRelevoLayer
                  /\ mp'.reliefOnMap = mp.reliefOnMap ]_vars

\* C28: a disease card shows the stale-year note exactly when the dataYear of the
\* disease's overview is less than the current year, and the note names that dataYear;
\* an overview obtained by fallback to an earlier year is therefore always flagged.
C28_StaleYearNote ==
    cd.cardCalls > 0 =>
        IF cd.cardArg = <<>> THEN cd.cardNote = <<>>
        ELSE LET year == cd.cardArg[1].dataYear
             IN  /\ \A i \in 1..Len(cd.cardArg) : cd.cardArg[i].dataYear = year
                 /\ (year < CurrentYear => cd.cardNote = <<year>>)
                 /\ (year >= CurrentYear => cd.cardNote = <<>>)

\* The card was drawn from an overview of last year in which no capital has a latest
\* point (the fallback found nothing): the note names last year.
C28_Witness ==
    /\ cd.cardCalls > 0
    /\ Len(cd.cardArg) = 2
    /\ cd.cardArg[1].latest = <<>> /\ cd.cardArg[2].latest = <<>>
    /\ cd.cardArg[1].dataYear = CurrentYear - 1
    /\ cd.cardNote = <<CurrentYear - 1>>

\* C29: once the national overview of disease d has been loaded, switching the active
\* disease starts no further overview fetch for d: a loadNationalData call begun with
\* state.nationalData[d] set leaves the request count of d, state.nationalData[d] and
\* the memoized overview of d as they are, in every one of its steps.
C29_LoadedOverviewReused ==
    [][ /\ \A x \in Diseases :
              SwitchDisease(x) =>
                  \A d \in Diseases :
                      nl.nationalData[d] # Absent =>
                          /\ nl'.requests[d] = nl.requests[d]
                          /\ nl'.nationalData[d] = nl.nationalData[d]
                          /\ overviewMemoized(cache', d)
                          /\ cache'[NationalKey(d)] = nl.nationalData[d][1]
        /\ \A i \in 1..Len(nl.calls) :
              \A d \in nl.calls[i].loadedAtStart :
                  (\E x \in nl.calls[i].waiting, data \in OverviewSamples :
                        OverviewSettles(i, x, data)) =>
                      /\ nl'.requests[d] = nl.requests[d]
                      /\ nl'.nationalData[d] = nl.nationalData[d]
                      /\ cache'[NationalKey(d)] = cache[NationalKey(d)] ]_vars

\* Both diseases were switched to after their overviews had been loaded, each overview
\* was fetched once, and no call is running.
C29_Witness ==
    /\ hist.reusedFor = Diseases
    /\ \A d \in Diseases : nl.nationalData[d] # Absent /\ nl.requests[d] = 1
    /\ nl.calls = <<>>
    /\ ui.currentDisease = "chikungunya"
    /\ ui.summaryShown = "chikungunya"

\* The legend row a percentage (in tenths) falls in, reading `lo-hi %` as the whole
\* percents lo to hi.
RowCovers(row, percent) ==
    IF row.text = "atLeast" THEN percent >= row.lo * 10
    ELSE IF row.text = "below" THEN percent < row.hi * 10
    ELSE row.lo * 10 <= percent /\ percent < (row.hi + 1) * 10

\* The bucket, counted from the top, of a percentage among four descending edges.
BucketOf(edges, percent) ==
    1 + Cardinality({ k \in 1..4 : percent < edges[k] * 10 })

\* C30: getSanitationColor sorts every percentage in 0..100 into one of five buckets with
\* edges >= 80, >= 60, >= 40, >= 20 and below 20, getTreatmentColor (relief layer) uses
\* >= 70, >= 55, >= 40, >= 25 and below 25, an edge value falls in the higher bucket, and
\* the ranges printed by updateLegend are these buckets with their colours.
C30_ColourBucketsMatchLegend ==
    sc.layer # "disease" =>
        LET edges == IF sc.layer = "esgotoRelevo" THEN <<70, 55, 40, 25>>
                     ELSE <<80, 60, 40, 20>>
            b == BucketOf(edges, sc.percent)
        IN  /\ Len(sc.legend) = 5
            /\ Cardinality({ sc.legend[k].color : k \in 1..5 }) = 5
            /\ sc.fill = sc.legend[b].color
            /\ \A k \in 1..5 : RowCovers(sc.legend[k], sc.percent) <=> k = b
            /\ \A k \in 1..4 : sc.legend[k].lo = edges[k]
            /\ \A k \in 2..4 : sc.legend[k].hi = edges[k - 1] - 1
            /\ sc.legend[5].hi = edges[4]

\* The edge value 55.0 on the relief layer: it is filled with the colour of the row
\* `55-69 %`, the higher of the two buckets it separates.
C30_Witness ==
    /\ sc.layer = "esgotoRelevo"
    /\ sc.percent = 550
    /\ sc.fill = "#22d3ee"
    /\ sc.legend[2].lo = 55

\* C31: the sanitation choropleth opacity is a linear function of the percentage, greater
\* than 0 at 0 % and equal to 1 (fully opaque) at 100 %: some floor f0 > 0 gives
\* opacity = f0 + (1 - f0) * percent / 100 for a state of the selected region.
C31_OpacityLinearToOpaque ==
    (sc.layer \in {"coletaEsgoto", "tratamentoEsgoto"} /\ sc.inRegion) =>
        /\ sc.opacity > 0
        /\ (sc.percent = 1000 => sc.opacity = 10000)
        /\ \E f0 \in 1..100 :
              sc.opacity * 1000 = f0 * 100 * 1000 + (10000 - f0 * 100) * sc.percent

\* C32: in every reachable state currentMapLayer is the layer most recently selected with
\* the layer buttons, 'disease' before any selection.
C32_CurrentLayerIsSelected ==
    mp.currentMapLayer = ui.activeBtn

\* C33: in every reachable state each municipality layer in loadedMunicipioLayers and
\* each entry of municipioAlertCache was built from alerts fetched for the current
\* currentDisease.
C33_MuniLayersOfCurrentDisease ==
    \A u \in UFs :
        /\ mp.loadedMunicipioLayers[u] # Null => mp.loadedMunicipioLayers[u] = mp.currentDisease
        /\ mp.municipioAlertCache[u] # Null => mp.municipioAlertCache[u] = mp.currentDisease

\* C34: in every reachable state every municipality layer on the map is recorded in
\* loadedMunicipioLayers under its state id, and there is at most one such layer per
\* state.
C34_MuniLayersTracked ==
    \A u \in UFs :
        /\ mp.muniOnMap[u] <= 1
        /\ mp.muniOnMap[u] = 1 => mp.loadedMunicipioLayers[u] # Null

\* A municipality layer is on the map and recorded after the state saw a disease switch
\* with its load in flight.
C34_Witness ==
    \E u \in UFs :
        /\ mp.muniOnMap[u] = 1
        /\ mp.loadedMunicipioLayers[u] # Null
        /\ mp.loadedMunicipioLayers[u] # mp.currentDisease

\* C35: in every reachable state at most one state-level choropleth layer is on the map
\* and it is the one geoLayer refers to, for overlapping loadGeoJSON calls whose boundary
\* fetches complete in any order.
C35_OneChoropleth ==
    /\ mp.geoOnMap <= 1
    /\ mp.geoOnMap = 1 <=> mp.geoLayer # NoLayer

\* One of two overlapping loadGeoJSON calls has drawn its choropleth for 'chikungunya'
\* over an earlier one while another call is still awaiting the boundary fetch.
C35_Witness ==
    /\ Len(pendingGeo) >= 1
    /\ mp.geoOnMap = 1
    /\ mp.geoLayer # NoLayer
    /\ mp.geoLayer.data = "chikungunya"
    /\ CacheHas(cache, BrazilGeoKey)

\* C36: every municipality load that is started eventually removes its state id from
\* loadingStates, whether it succeeds or a fetch fails; after a failed load the state has
\* no layer and no in-flight marker, and a later zoom/pan settle event that shows the
\* state on the disease layer starts a new load for it.
C36_LoadsSettleAndRetry ==
    /\ \A u \in UFs : (u \in mp.loadingStates) ~> (u \notin mp.loadingStates)
    /\ [][ \A u \in UFs :
             MuniLoadSettles(u, FALSE) =>
                 /\ u \notin mp'.loadingStates
                 /\ mp'.loadedMunicipioLayers[u] = Null
                 /\ mp'.muniOnMap[u] = 0 ]_vars
    /\ [][ \A u \in UFs, z \in ZoomLevels, vp \in SUBSET UFs :
             ( /\ MapMoveEnd(z, vp)
               /\ z >= MUNICIPIO_ZOOM_THRESHOLD /\ u \in vp
               /\ mp.loadedMunicipioLayers[u] = Null /\ u \notin mp.loadingStates )
             => ( u \in mp'.loadingStates /\ muniLoads'[u] = <<mp.currentDisease>> ) ]_vars

\* Zoomed in on the disease layer with the state in view, no layer and no load in flight:
\* the state's load has failed, and the next zoom/pan event finds it ready for a new one.
C36_Witness ==
    \E u \in UFs :
        /\ mp.zoom >= MUNICIPIO_ZOOM_THRESHOLD
        /\ u \in getVisibleUFs(mp)
        /\ mp.currentMapLayer = "disease"
        /\ mp.loadedMunicipioLayers[u] = Null
        /\ u \notin mp.loadingStates
        /\ muniLoads[u] = <<>>
        /\ ~CacheHas(cache, StateGeoKey(u))

\* C37: for every day of the year the week window of the current-year attempt of
\* fetchNationalOverview and that of fetchBulkMunicipioAlerts satisfy
\* 1 <= startEW <= currentEW <= 52, also on 1 January (day-of-year 0).
C37_WeekWindowOrdered ==
    /\ ov.pc # "idle" =>
          LET a == ov.tried[1]
          IN  1 <= a.ewStart /\ a.ewStart <= a.ewEnd /\ a.ewEnd <= 52
    /\ bk.pc # "idle" =>
          /\ 1 <= bulkStartEW(bk.currentEW)
          /\ bulkStartEW(bk.currentEW) <= bk.currentEW
          /\ bk.currentEW <= 52

\* C38: in every reachable state state.trackerLocations holds at most one entry per
\* geocode.
C38_OneEntryPerGeocode ==
    \A i, j \in 1..Len(tk.trackerLocations) :
        tk.trackerLocations[i].geocode = tk.trackerLocations[j].geocode => i = j

\* C39: once all pending tracker fetches have completed, every series in
\* state.trackerDatasets was fetched for the current state.currentDisease and the
\* current reporting period.
C39_SeriesOfCurrentSelection ==
    tk.fetches = <<>> =>
        \A n \in DOMAIN tk.trackerDatasets :
            /\ tk.trackerDatasets[n].disease = ui.currentDisease
            /\ tk.trackerDatasets[n].period = tk.period

====
